---- MODULE Spec2Model ----
(***************************************************************************)
(* The virtual trading ledger and order-execution engine of the wallet     *)
(* store (useWalletStore, src/unnamed/part_016).                           *)
(*                                                                         *)
(* Numbers.  The store computes with JavaScript numbers.  The model        *)
(* computes with exact rationals <<n, d>> (d > 0, lowest terms), i.e. the  *)
(* values the float expressions denote before rounding.  Time is the       *)
(* clock of Date.now(), counted in seconds.                                *)
(*                                                                         *)
(* Fields that are written and never read by the store (name, shortName,   *)
(* color, timestamp, note) are left out of the records.                    *)
(***************************************************************************)
EXTENDS Integers, Sequences, FiniteSets, TLC

(***************************************************************************)
(* Exact rational arithmetic                                               *)
(***************************************************************************)
Abs(x) == IF x < 0 THEN -x ELSE x

RECURSIVE Gcd(_, _)
Gcd(a, b) == IF b = 0 THEN a ELSE Gcd(b, a % b)

Norm(n, d) ==
    LET g == Gcd(Abs(n), d)
    IN  <<n \div g, d \div g>>

R(n) == <<n, 1>>

Zero == R(0)

RAdd(a, b) ==
    LET g == Gcd(a[2], b[2])
        l == (a[2] \div g) * b[2]
    IN  Norm(a[1] * (l \div a[2]) + b[1] * (l \div b[2]), l)

RNeg(a) == <<-a[1], a[2]>>

RSub(a, b) == RAdd(a, RNeg(b))

RMul(a, b) ==
    LET g1 == Gcd(Abs(a[1]), b[2])
        g2 == Gcd(Abs(b[1]), a[2])
    IN  IF a[1] = 0 \/ b[1] = 0 THEN Zero
        ELSE <<(a[1] \div g1) * (b[1] \div g2), (a[2] \div g2) * (b[2] \div g1)>>

\* a / b for b # 0
RDiv(a, b) ==
    IF b[1] > 0 THEN RMul(a, <<b[2], b[1]>>) ELSE RMul(a, <<-b[2], -b[1]>>)

RLt(a, b) ==
    LET g == Gcd(a[2], b[2])
    IN  a[1] * (b[2] \div g) < b[1] * (a[2] \div g)

RLe(a, b) == ~RLt(b, a)

RGt(a, b) == RLt(b, a)

RGe(a, b) == ~RLt(a, b)

(***************************************************************************)
(* Program constants                                                       *)
(***************************************************************************)
\* TRADING_FEE_PERCENT / 100 with TRADING_FEE_PERCENT = 0.1
FeeRate == <<1, 1000>>

INITIAL_BALANCE == 500

\* faulty variant: one amount for every tier
DAILY_BONUS_Flat(tier) == R(50)

DAILY_BONUS(tier) ==
    CASE tier = "free" -> R(0)
      [] tier = "starter" -> R(50)
      [] tier = "pro" -> R(100)
      [] tier = "ultimate" -> R(2000)

\* the threshold 0.00000001 of sell, as the denominator of 1/10^8
EpsilonDen == 100000000

\* length of one calendar day of toDateString(), in seconds
DaySec == 24 * 60 * 60

\* 7 * 24 * 60 * 60 * 1000 ms, in seconds
LimitExpirySec == 7 * 24 * 60 * 60

DefaultSlippagePercent == <<1, 10>>

Tiers == {"free", "starter", "pro", "ultimate"}

\* absent optional values: expiresAt, lastBonusClaim, slippage / orderType / error,
\* the percent argument of setSlippage
NoExpiry == -1

NoClaim == -1

Undefined == "undefined"

NoPercent == <<0, 0>>

\* the number NaN
NaN == <<0, 0>>

(***************************************************************************)
(* Faulty variants of single decisions of the store.  Each one stands in   *)
(* for the definition named with it, to show that the properties below     *)
(* depend on that decision.                                                *)
(***************************************************************************)
\* for Cancellable: cancelOrder without its status check
CancellableAlways(order) == TRUE

\* for Evaluated: an order pass without its early return
EvaluatedAlways(order) == TRUE

\* for Evaluated: a pass that skips cancelled orders only
EvaluatedUnlessCancelled(order) == order.status # "cancelled"

\* for BuyRejected: buy without its balance guard
BuyRejectedNever(totalCost, bal) == FALSE

\* for Record: a call that does not log its transaction
RecordNothing(tx, log) == log

\* for Record: a call that logs its transaction behind the earlier ones
RecordAtEnd(tx, log) == Append(log, tx)

\* for SellProceeds: a sale that credits the gross value
SellProceedsGross(totalValue) == totalValue

\* for ShouldExecute: triggers on strict comparisons only
ShouldExecuteStrict(order, currentPrice) ==
    CASE order.type = "limit" ->
           \/ order.side = "buy" /\ RLt(currentPrice, order.targetPrice)
           \/ order.side = "sell" /\ RGt(currentPrice, order.targetPrice)
      [] order.type = "stop-loss" -> RLt(currentPrice, order.targetPrice)
      [] order.type = "take-profit" -> RGt(currentPrice, order.targetPrice)
      [] OTHER -> FALSE

\* for MarkedFilled: an order marked whatever the ledger call returned
MarkedFilledAlways(result) == TRUE

\* for MarkedFilled: a pass that never marks the order it traded
MarkedFilledNever(result) == FALSE

\* for ExecutionPrice: a triggered order traded at the current price
ExecutionPriceCurrent(order, currentPrice) == currentPrice

\* for Expired: an order pass without its expiry check
ExpiredNever(order, nowv) == FALSE

\* for Expired: every order expires seven days after its creation
ExpiredByAge(order, nowv) == order.createdAt + LimitExpirySec < nowv

\* for NoPrice: an order pass that goes on without a price
NoPriceNever(currentPrice) == FALSE

\* for SetStatus: a status update that does not look at the id
SetStatusOfAll(orders, id, status) ==
    [ k \in 1..Len(orders) |-> [ orders[k] EXCEPT !.status = status ] ]

\* for InitialStatus: an order that is born filled
InitialStatusFilled == "filled"

\* for StopRejected: stop-loss / take-profit placement without its check
StopRejectedNever(symbol, amount) == FALSE

\* for AverageCost: a buy that keeps the average of the holding
AverageCostKept(held, amount, newAmount) == held.avgBuyPrice

\* for IsDust: a sale that never deletes the holding
IsDustNever(newAmount) == FALSE

\* for SellRejected: sell that checks the holding, not its quantity
SellRejectedIfNone(hs, symbol, amount) == symbol \notin DOMAIN hs

\* for DepositedBaseline: deposit that leaves the baseline alone
DepositedBaselineKept(baseline, amount) == baseline

\* for SeedTransaction: an opening transaction that carries no amount
SeedTransactionOfNothing(id) ==
    [ id |-> id, type |-> "deposit", orderType |-> Undefined, symbol |-> "USD",
      amount |-> Zero, price |-> R(1), total |-> Zero, fee |-> Zero,
      slippage |-> Undefined ]

\* for FirstMatch: the position of the last element of a set of positions
LastMatch(ks) == CHOOSE k \in ks : \A j \in ks : j <= k

\* for PersistedOrder: every order is written to the snapshot
PersistedOrderAny(order) == TRUE

\* for Reduced: a sale that resets the average cost of what is left
ReducedRepriced(holding, newAmount) ==
    [ holding EXCEPT !.amount = newAmount, !.avgBuyPrice = Zero ]

(***************************************************************************)
(* Bounds and inputs of the model                                          *)
(***************************************************************************)
\* length of a run: the ids handed out by generateId() (every transaction and
\* every order takes one, the first is the seed deposit's), plus the steps of
\* the clock, plus the calls of setSlippage
MaxEvents == 4

Symbols == {"SOLUSDT", "BTCUSDT"}

DepositAmounts == {R(100), R(-600)}

\* <<symbol, amount (USD), price>>
BuyInputs ==
    { <<"SOLUSDT", R(100), R(50)>>,
      <<"SOLUSDT", R(1000), R(50)>> }

\* <<symbol, amount (asset units), price>>
SellInputs ==
    { <<"SOLUSDT", R(2), R(55)>>,
      <<"SOLUSDT", R(1), R(50)>> }

\* <<side, symbol, amount, targetPrice>>
LimitInputs ==
    { <<"buy", "SOLUSDT", R(300), R(55)>>,
      <<"sell", "SOLUSDT", R(55), R(55)>> }

\* <<symbol, amount (asset units), stopPrice / targetPrice>>
StopInputs == { <<"SOLUSDT", R(2), R(55)>> }

\* a price map; 0 stands for a symbol without an entry
PriceMaps ==
    { [s \in Symbols |-> IF s = "SOLUSDT" THEN p ELSE 0] : p \in {0, 50, 55, 56} }

\* <<enabled, percent>>, NoPercent for an omitted percent.  A percent of 50 with
\* a draw of 1/2 moves the price by a quarter, which keeps the rationals small.
SlippageInputs == { <<FALSE, NoPercent>>, <<TRUE, R(50)>> }

\* values of Math.random(), in [0, 1)
RandomDraws == { Zero, <<1, 2>> }

\* the time that passes in one step of the clock: past the end of the day and
\* past the expiry of a limit order
TimeStep == 8 * DaySec

(***************************************************************************)
(* State                                                                   *)
(***************************************************************************)
VARIABLES
    balance,          \* virtual USD balance
    initialDeposit,
    holdings,         \* symbol -> [symbol, amount, avgBuyPrice], on the held symbols
    transactions,     \* most recent first
    pendingOrders,    \* in creation order
    userTier,
    lastBonusClaim,   \* day of the last claim, or NoClaim
    slippageEnabled,
    slippagePercent,
    now,              \* the clock, in seconds
    nextId,           \* the next value of generateId()
    ret,              \* the last call and what it returned
    okActions,        \* successful ledger calls since the last reset
    switches,         \* calls of setSlippage
    bonusDays,        \* the days on which claimDailyBonus has succeeded
    dust,             \* asset units dropped with deleted holdings, per symbol
    journalEntries,   \* in the order added
    pass,             \* the order pass in progress, where it is taken order by order
    budget            \* the length of the run, in events

\* no order pass is in progress
NoPass == <<>>

\* the run has room for one more event
Room == (nextId - 1) + (now \div TimeStep) + switches < budget

vars ==
    <<balance, initialDeposit, holdings, transactions, pendingOrders, userTier,
      lastBonusClaim, slippageEnabled, slippagePercent, now, nextId, ret,
      okActions, dust, switches, bonusDays, journalEntries, pass, budget>>

\* the part of the store that buy, sell and the order pass work on
Wallet ==
    [ balance |-> balance, holdings |-> holdings, transactions |-> transactions,
      pendingOrders |-> pendingOrders, nextId |-> nextId, okActions |-> okActions,
      dust |-> dust, outcomes |-> <<>> ]

Ret(op, success, error) ==
    [ op |-> op, success |-> success, error |-> error, orderId |-> Undefined,
      outcomes |-> <<>>, prices |-> <<>> ]

NoHoldings == [s \in {} |-> Zero]

SeedTransaction(id) ==
    [ id |-> id, type |-> "deposit", orderType |-> Undefined, symbol |-> "USD",
      amount |-> R(INITIAL_BALANCE), price |-> R(1), total |-> R(INITIAL_BALANCE),
      fee |-> Zero, slippage |-> Undefined ]

\* The store as constructed, after the setSlippage(false) with which the ledger
\* tests start; userTier is the tier of the restored session.
Init ==
    /\ balance = R(INITIAL_BALANCE)
    /\ initialDeposit = R(INITIAL_BALANCE)
    /\ holdings = NoHoldings
    /\ transactions = << SeedTransaction(1) >>
    /\ pendingOrders = <<>>
    /\ userTier \in {"free", "starter"}
    /\ lastBonusClaim = NoClaim
    /\ slippageEnabled = FALSE
    /\ slippagePercent = DefaultSlippagePercent
    /\ now = 0
    /\ nextId = 2
    /\ ret = Ret("create", TRUE, Undefined)
    /\ okActions = 0
    /\ dust = [s \in Symbols |-> Zero]
    /\ switches = 0
    /\ bonusDays = {}
    /\ journalEntries = <<>>
    /\ pass = NoPass
    /\ budget = MaxEvents

(***************************************************************************)
(* Slippage                                                                *)
(***************************************************************************)
\* faulty variant: the deviation with the opposite sign
calculateSlippageFavourable(price, percent, isBuy, random) ==
    LET slippageAmount == RMul(price, RDiv(RMul(random, percent), R(100)))
    IN  IF isBuy THEN RNeg(slippageAmount) ELSE slippageAmount

\* random is the value Math.random() returns
calculateSlippage(price, percent, isBuy, random) ==
    LET randomFactor == RMul(random, percent)
        slippageAmount == RMul(price, RDiv(randomFactor, R(100)))
    IN  IF isBuy THEN slippageAmount ELSE RNeg(slippageAmount)

getExecutedPrice(price, percent, isBuy, random) ==
    RAdd(price, calculateSlippage(price, percent, isBuy, random))

\* the draws Math.random() can give in the current state: none is taken when
\* slippage is disabled
Draws == IF slippageEnabled THEN RandomDraws ELSE { Zero }

(***************************************************************************)
(* Ledger: buy and sell on a wallet w, as called directly and by the       *)
(* order pass                                                              *)
(***************************************************************************)
BuyFee(amount) == RMul(amount, FeeRate)

\* transactions: [transaction, ...state.transactions]
Record(tx, log) == <<tx>> \o log

BuyTotalCost(amount) == RAdd(amount, BuyFee(amount))

\* the guard of buy
BuyRejected(totalCost, bal) == RGt(totalCost, bal)

\* totalValue / newAmount for a buy on an existing holding.  For the amounts >= 0
\* of the model a newAmount of 0 comes with a totalValue of 0, and 0 / 0 is NaN;
\* every operation on NaN gives NaN.
AverageCost(held, amount, newAmount) ==
    IF held.avgBuyPrice = NaN \/ newAmount = Zero THEN NaN
    ELSE RDiv(RAdd(RMul(held.amount, held.avgBuyPrice), amount), newAmount)

buy(w, symbol, amount, price, random) ==
    LET executedPrice ==
            IF slippageEnabled
            THEN getExecutedPrice(price, slippagePercent, TRUE, random)
            ELSE price
        slippage == RSub(executedPrice, price)
        fee == BuyFee(amount)
        totalCost == BuyTotalCost(amount)
        cryptoAmount == RDiv(amount, executedPrice)
        existing == symbol \in DOMAIN w.holdings
        newAmount ==
            IF existing THEN RAdd(w.holdings[symbol].amount, cryptoAmount)
            ELSE cryptoAmount
        newAvgPrice ==
            IF existing
            THEN AverageCost(w.holdings[symbol], amount, newAmount)
            ELSE executedPrice
        holding == [ symbol |-> symbol, amount |-> newAmount, avgBuyPrice |-> newAvgPrice ]
        tx == [ id |-> w.nextId, type |-> "buy", orderType |-> "market",
                symbol |-> symbol, amount |-> cryptoAmount, price |-> executedPrice,
                total |-> amount, fee |-> fee,
                slippage |-> IF RGt(slippage, Zero) THEN slippage ELSE Undefined ]
    IN  IF BuyRejected(totalCost, w.balance)
        THEN [ success |-> FALSE, error |-> "Insufficient balance", w |-> w ]
        ELSE [ success |-> TRUE, error |-> Undefined,
               w |-> [ w EXCEPT
                         !.balance = RSub(w.balance, totalCost),
                         !.holdings = [ s \in DOMAIN w.holdings \cup {symbol} |->
                                          IF s = symbol THEN holding ELSE w.holdings[s] ],
                         !.transactions = Record(tx, w.transactions),
                         !.nextId = w.nextId + 1,
                         !.okActions = w.okActions + 1 ] ]

\* the guard of sell
SellRejected(hs, symbol, amount) ==
    \/ symbol \notin DOMAIN hs
    \/ RLt(hs[symbol].amount, amount)

\* newAmount <= 0.00000001, i.e. n/d <= 1/EpsilonDen, without forming n * EpsilonDen
IsDust(newAmount) == newAmount[1] <= newAmount[2] \div EpsilonDen

SellProceeds(totalValue) == RSub(totalValue, RMul(totalValue, FeeRate))

\* { ...holding, amount: newAmount }
Reduced(holding, newAmount) == [ holding EXCEPT !.amount = newAmount ]

sell(w, symbol, amount, price, random) ==
    IF SellRejected(w.holdings, symbol, amount)
    THEN [ success |-> FALSE, error |-> "Insufficient holdings", w |-> w ]
    ELSE
      LET holding == w.holdings[symbol]
          executedPrice ==
              IF slippageEnabled
              THEN getExecutedPrice(price, slippagePercent, FALSE, random)
              ELSE price
          slippage == RSub(price, executedPrice)
          totalValue == RMul(amount, executedPrice)
          fee == RMul(totalValue, FeeRate)
          netValue == SellProceeds(totalValue)
          newAmount == RSub(holding.amount, amount)
          tx == [ id |-> w.nextId, type |-> "sell", orderType |-> "market",
                  symbol |-> symbol, amount |-> amount, price |-> executedPrice,
                  total |-> totalValue, fee |-> fee,
                  slippage |-> IF RGt(slippage, Zero) THEN slippage ELSE Undefined ]
      IN  [ success |-> TRUE, error |-> Undefined,
            w |-> [ w EXCEPT
                      !.balance = RAdd(w.balance, netValue),
                      !.holdings =
                          IF IsDust(newAmount)
                          THEN [ s \in DOMAIN w.holdings \ {symbol} |-> w.holdings[s] ]
                          ELSE [ w.holdings EXCEPT ![symbol] = Reduced(holding, newAmount) ],
                      !.transactions = Record(tx, w.transactions),
                      !.nextId = w.nextId + 1,
                      !.okActions = w.okActions + 1,
                      !.dust = IF IsDust(newAmount)
                               THEN [ w.dust EXCEPT ![symbol] = RAdd(@, newAmount) ]
                               ELSE w.dust ] ]

\* the store after a call that worked on wallet w
Commit(w) ==
    /\ balance' = w.balance
    /\ holdings' = w.holdings
    /\ transactions' = w.transactions
    /\ pendingOrders' = w.pendingOrders
    /\ nextId' = w.nextId
    /\ okActions' = w.okActions
    /\ dust' = w.dust

\* what no ledger or order call touches
Config ==
    <<userTier, slippageEnabled, slippagePercent, now, switches, bonusDays, pass, budget>>

Settings == <<Config, journalEntries>>

(***************************************************************************)
(* Ledger actions                                                          *)
(***************************************************************************)
\* initialDeposit: state.initialDeposit + amount
DepositedBaseline(baseline, amount) == RAdd(baseline, amount)

Deposit(amount) ==
    /\ Room
    /\ balance' = RAdd(balance, amount)
    /\ initialDeposit' = DepositedBaseline(initialDeposit, amount)
    /\ transactions' =
           Record([ id |-> nextId, type |-> "deposit", orderType |-> Undefined,
                    symbol |-> "USD", amount |-> amount, price |-> R(1),
                    total |-> amount, fee |-> Zero, slippage |-> Undefined ],
                  transactions)
    /\ nextId' = nextId + 1
    /\ okActions' = okActions + 1
    /\ ret' = Ret("deposit", TRUE, Undefined)
    /\ UNCHANGED <<holdings, pendingOrders, lastBonusClaim, dust, Settings>>

Buy(symbol, amount, price, random) ==
    /\ LET r == buy(Wallet, symbol, amount, price, random)
       IN  /\ r.success => Room
           /\ Commit(r.w)
           /\ ret' = Ret("buy", r.success, r.error)
    /\ UNCHANGED <<initialDeposit, lastBonusClaim, Settings>>

Sell(symbol, amount, price, random) ==
    /\ LET r == sell(Wallet, symbol, amount, price, random)
       IN  /\ r.success => Room
           /\ Commit(r.w)
           /\ ret' = Ret("sell", r.success, r.error)
    /\ UNCHANGED <<initialDeposit, lastBonusClaim, Settings>>

Today == now \div DaySec

ClaimDailyBonus ==
    /\ IF lastBonusClaim = Today
       THEN /\ ret' = Ret("claimDailyBonus", FALSE, "Already claimed today")
            /\ UNCHANGED <<balance, transactions, lastBonusClaim, nextId, okActions,
                           bonusDays>>
       ELSE IF DAILY_BONUS(userTier) = Zero
       THEN /\ ret' = Ret("claimDailyBonus", FALSE, "Upgrade to get daily bonus")
            /\ UNCHANGED <<balance, transactions, lastBonusClaim, nextId, okActions,
                           bonusDays>>
       ELSE /\ Room
            /\ balance' = RAdd(balance, DAILY_BONUS(userTier))
            /\ lastBonusClaim' = Today
            /\ bonusDays' = bonusDays \cup {Today}
            /\ transactions' =
                   Record([ id |-> nextId, type |-> "bonus", orderType |-> Undefined,
                            symbol |-> "USD", amount |-> DAILY_BONUS(userTier),
                            price |-> R(1), total |-> DAILY_BONUS(userTier),
                            fee |-> Zero, slippage |-> Undefined ],
                          transactions)
            /\ nextId' = nextId + 1
            /\ okActions' = okActions + 1
            /\ ret' = Ret("claimDailyBonus", TRUE, Undefined)
    /\ UNCHANGED <<initialDeposit, holdings, pendingOrders, dust, userTier,
                   slippageEnabled, slippagePercent, now, switches, journalEntries,
                   pass, budget>>

ResetWallet ==
    /\ Room
    /\ balance' = R(INITIAL_BALANCE)
    /\ initialDeposit' = R(INITIAL_BALANCE)
    /\ holdings' = NoHoldings
    /\ transactions' = << SeedTransaction(nextId) >>
    /\ pendingOrders' = <<>>
    /\ lastBonusClaim' = NoClaim
    /\ nextId' = nextId + 1
    /\ okActions' = 0
    /\ dust' = [s \in Symbols |-> Zero]
    /\ journalEntries' = <<>>
    /\ ret' = Ret("resetWallet", TRUE, Undefined)
    /\ UNCHANGED Config

SetSlippage(enabled, percent) ==
    /\ Room
    /\ switches' = switches + 1
    /\ slippageEnabled' = enabled
    /\ slippagePercent' = IF percent = NoPercent THEN slippagePercent ELSE percent
    /\ ret' = Ret("setSlippage", TRUE, Undefined)
    /\ UNCHANGED <<balance, initialDeposit, holdings, transactions, pendingOrders,
                   userTier, lastBonusClaim, now, nextId, okActions, dust, bonusDays,
                   journalEntries, pass, budget>>

\* time passes between two calls
AdvanceTime ==
    /\ Room
    /\ now' = now + TimeStep
    /\ ret' = Ret("advanceTime", TRUE, Undefined)
    /\ UNCHANGED <<balance, initialDeposit, holdings, transactions, pendingOrders,
                   userTier, lastBonusClaim, slippageEnabled, slippagePercent, nextId,
                   okActions, dust, switches, bonusDays, journalEntries, pass, budget>>

(***************************************************************************)
(* Pending orders                                                          *)
(***************************************************************************)
\* status: 'pending' of the three place* actions
InitialStatus == "pending"

Order(id, type, side, symbol, amount, targetPrice, expiresAt) ==
    [ id |-> id, type |-> type, side |-> side, symbol |-> symbol, amount |-> amount,
      targetPrice |-> targetPrice, createdAt |-> now, expiresAt |-> expiresAt,
      status |-> InitialStatus ]

\* the placement check of placeLimitOrder
LimitRejected(side, symbol, amount, targetPrice) ==
    IF side = "buy"
    THEN RGt(RAdd(amount, RMul(amount, FeeRate)), balance)
    ELSE \/ symbol \notin DOMAIN holdings
         \/ RLt(holdings[symbol].amount, RDiv(amount, targetPrice))

\* the placement check of placeStopLoss and placeTakeProfit
StopRejected(symbol, amount) ==
    \/ symbol \notin DOMAIN holdings
    \/ RLt(holdings[symbol].amount, amount)

Placed(op, order) ==
    /\ Room
    /\ pendingOrders' = Append(pendingOrders, order)
    /\ nextId' = nextId + 1
    /\ ret' = [ Ret(op, TRUE, Undefined) EXCEPT !.orderId = order.id ]

NotPlaced(op, error) ==
    /\ ret' = Ret(op, FALSE, error)
    /\ UNCHANGED <<pendingOrders, nextId>>

PlaceLimitOrder(side, symbol, amount, targetPrice) ==
    /\ IF LimitRejected(side, symbol, amount, targetPrice)
       THEN NotPlaced("placeLimitOrder",
                      IF side = "buy" THEN "Insufficient balance for limit order"
                      ELSE "Insufficient holdings for limit order")
       ELSE Placed("placeLimitOrder",
                   Order(nextId, "limit", side, symbol, amount, targetPrice,
                         now + LimitExpirySec))
    /\ UNCHANGED <<balance, initialDeposit, holdings, transactions, lastBonusClaim,
                   okActions, dust, Settings>>

PlaceStopLoss(symbol, amount, stopPrice) ==
    /\ IF StopRejected(symbol, amount)
       THEN NotPlaced("placeStopLoss", "Insufficient holdings for stop-loss")
       ELSE Placed("placeStopLoss",
                   Order(nextId, "stop-loss", "sell", symbol, amount, stopPrice, NoExpiry))
    /\ UNCHANGED <<balance, initialDeposit, holdings, transactions, lastBonusClaim,
                   okActions, dust, Settings>>

PlaceTakeProfit(symbol, amount, targetPrice) ==
    /\ IF StopRejected(symbol, amount)
       THEN NotPlaced("placeTakeProfit", "Insufficient holdings for take-profit")
       ELSE Placed("placeTakeProfit",
                   Order(nextId, "take-profit", "sell", symbol, amount, targetPrice,
                         NoExpiry))
    /\ UNCHANGED <<balance, initialDeposit, holdings, transactions, lastBonusClaim,
                   okActions, dust, Settings>>

\* pendingOrders.map(o => o.id === id ? { ...o, status } : o)
SetStatus(orders, id, status) ==
    [ k \in 1..Len(orders) |->
        IF orders[k].id = id THEN [ orders[k] EXCEPT !.status = status ] ELSE orders[k] ]

\* the status check of cancelOrder
Cancellable(order) == order.status = "pending"

CancelOrder(orderId) ==
    /\ IF \A k \in 1..Len(pendingOrders) : pendingOrders[k].id # orderId
       THEN /\ ret' = Ret("cancelOrder", FALSE, "Order not found")
            /\ UNCHANGED pendingOrders
       ELSE LET k == CHOOSE j \in 1..Len(pendingOrders) :
                        /\ pendingOrders[j].id = orderId
                        /\ \A i \in 1..(j - 1) : pendingOrders[i].id # orderId
            IN  IF ~Cancellable(pendingOrders[k])
                THEN /\ ret' = Ret("cancelOrder", FALSE, "Order cannot be cancelled")
                     /\ UNCHANGED pendingOrders
                ELSE /\ pendingOrders' = SetStatus(pendingOrders, orderId, "cancelled")
                     /\ ret' = Ret("cancelOrder", TRUE, Undefined)
    /\ UNCHANGED <<balance, initialDeposit, holdings, transactions, lastBonusClaim,
                   nextId, okActions, dust, Settings>>

(***************************************************************************)
(* checkAndExecuteOrders                                                   *)
(***************************************************************************)
\* the orders the pass looks at: order.status !== 'pending' returns early
Evaluated(order) == order.status = "pending"

\* order.expiresAt && new Date(order.expiresAt) < now
Expired(order, nowv) == order.expiresAt # NoExpiry /\ order.expiresAt < nowv

\* if (!currentPrice) return, for a price map entry that is missing (0) or 0
NoPrice(currentPrice) == currentPrice = 0

\* the switch over order.type that sets shouldExecute
ShouldExecute(order, currentPrice) ==
    CASE order.type = "limit" ->
           \/ order.side = "buy" /\ RLe(currentPrice, order.targetPrice)
           \/ order.side = "sell" /\ RGe(currentPrice, order.targetPrice)
      [] order.type = "stop-loss" -> RLe(currentPrice, order.targetPrice)
      [] order.type = "take-profit" -> RGe(currentPrice, order.targetPrice)
      [] OTHER -> FALSE

\* the price handed to buy / sell for a triggered order
ExecutionPrice(order, currentPrice) == order.targetPrice

\* the quantity handed to sell for a triggered sell-side order
SellQuantity(order) == RDiv(order.amount, order.targetPrice)

\* the ledger call of a triggered order
ExecuteOrder(order, w, currentPrice, random) ==
    IF order.side = "buy"
    THEN buy(w, order.symbol, order.amount, ExecutionPrice(order, currentPrice), random)
    ELSE sell(w, order.symbol, SellQuantity(order), ExecutionPrice(order, currentPrice),
              random)

\* if (result.success) { ... status: 'filled' ... }
MarkedFilled(result) == result.success

Outcome(w, what) == [ w EXCEPT !.outcomes = Append(w.outcomes, what) ]

\* one iteration of the forEach, for the order as it is in the snapshot, on the
\* store w as the earlier iterations left it
ProcessOrder(order, w, currentPrices, nowv, random) ==
    IF ~Evaluated(order) THEN Outcome(w, "skipped")
    ELSE IF Expired(order, nowv)
    THEN Outcome([ w EXCEPT !.pendingOrders = SetStatus(w.pendingOrders, order.id, "expired") ],
                 "expired")
    ELSE IF NoPrice(currentPrices[order.symbol]) THEN Outcome(w, "no price")
    ELSE IF ~ShouldExecute(order, R(currentPrices[order.symbol]))
    THEN Outcome(w, "not triggered")
    ELSE LET r == ExecuteOrder(order, w, R(currentPrices[order.symbol]), random)
         IN  Outcome(IF MarkedFilled(r)
                     THEN [ r.w EXCEPT !.pendingOrders =
                                         SetStatus(r.w.pendingOrders, order.id, "filled") ]
                     ELSE r.w,
                     IF r.success THEN "filled" ELSE "ledger failed")

\* faulty variant: the snapshot walked from its last order to its first
RECURSIVE ProcessOrdersBackwards(_, _, _, _, _, _)
ProcessOrdersBackwards(i, snapshot, w, currentPrices, nowv, randoms) ==
    IF i > Len(snapshot) THEN w
    ELSE ProcessOrdersBackwards(i + 1, snapshot,
                                ProcessOrder(snapshot[Len(snapshot) + 1 - i], w,
                                             currentPrices, nowv, randoms[i]),
                                currentPrices, nowv, randoms)

RECURSIVE ProcessOrders(_, _, _, _, _, _)
ProcessOrders(i, snapshot, w, currentPrices, nowv, randoms) ==
    IF i > Len(snapshot) THEN w
    ELSE ProcessOrders(i + 1, snapshot,
                       ProcessOrder(snapshot[i], w, currentPrices, nowv, randoms[i]),
                       currentPrices, nowv, randoms)

CheckAndExecuteOrders(currentPrices, randoms) ==
    /\ LET w == ProcessOrders(1, pendingOrders, Wallet, currentPrices, now, randoms)
       IN  /\ (w.nextId - 1) + (now \div TimeStep) + switches <= budget
           /\ Commit(w)
           /\ ret' = [ Ret("checkAndExecuteOrders", TRUE, Undefined) EXCEPT
                         !.outcomes = w.outcomes, !.prices = currentPrices ]
    /\ UNCHANGED <<initialDeposit, lastBonusClaim, Settings>>

(***************************************************************************)
(* Specification                                                           *)
(***************************************************************************)
Next ==
    \/ \E a \in DepositAmounts : Deposit(a)
    \/ \E b \in BuyInputs, r \in Draws : Buy(b[1], b[2], b[3], r)
    \/ \E b \in SellInputs, r \in Draws : Sell(b[1], b[2], b[3], r)
    \/ ClaimDailyBonus
    \/ ResetWallet
    \/ \E c \in SlippageInputs : SetSlippage(c[1], c[2])
    \/ \E o \in LimitInputs : PlaceLimitOrder(o[1], o[2], o[3], o[4])
    \/ \E o \in StopInputs : PlaceStopLoss(o[1], o[2], o[3])
    \/ \E o \in StopInputs : PlaceTakeProfit(o[1], o[2], o[3])
    \/ \E id \in 1..MaxEvents : CancelOrder(id)
    \/ \E m \in PriceMaps, rs \in [1..Len(pendingOrders) -> Draws] :
          CheckAndExecuteOrders(m, rs)
    \/ AdvanceTime

Spec == Init /\ [][Next]_vars

(***************************************************************************)
(* Properties.  ret names the call that made a step, so a property about   *)
(* one operation is a property of the steps with that ret.op.              *)
(***************************************************************************)
Terminal(order) == order.status \in {"filled", "cancelled", "expired"}

CheckStep == ret'.op = "checkAndExecuteOrders"

\* the positions of the orders a pass filled
FilledNow == { k \in 1..Len(pendingOrders) : ret'.outcomes[k] = "filled" }

\* C1: over any calls other than resetWallet, the order list only grows, an
\* order changes in no field but its status, and its status changes only from
\* pending to filled, cancelled or expired; a terminal order never changes.
OrdersOnlyAdvance ==
    [][ret'.op # "resetWallet" =>
         /\ Len(pendingOrders') >= Len(pendingOrders)
         /\ \A k \in 1..Len(pendingOrders) :
              LET before == pendingOrders[k]
                  after == pendingOrders'[k]
              IN  /\ [ after EXCEPT !.status = before.status ] = before
                  /\ after.status # before.status =>
                       before.status = "pending" /\ Terminal(after)
                  /\ Terminal(before) => after = before]_vars

\* C1 witness: cancelOrder was called on a filled order and refused
CancelOfFilledRefused ==
    /\ ret.op = "cancelOrder"
    /\ ret.error = "Order cannot be cancelled"
    /\ \E k \in 1..Len(pendingOrders) : pendingOrders[k].status = "filled"

\* C2: an order pass leaves every terminal order as it is and skips it; the
\* pass logs as many transactions as it turns pending orders into filled ones,
\* and with only terminal orders it changes nothing in the ledger.
TerminalOrdersUntouched ==
    [][CheckStep =>
         /\ \A k \in 1..Len(pendingOrders) :
              Terminal(pendingOrders[k]) =>
                /\ pendingOrders'[k] = pendingOrders[k]
                /\ ret'.outcomes[k] = "skipped"
         /\ Len(transactions') - Len(transactions) =
              Cardinality({ k \in 1..Len(pendingOrders) :
                              /\ pendingOrders[k].status = "pending"
                              /\ pendingOrders'[k].status = "filled" })
         /\ (\A k \in 1..Len(pendingOrders) : Terminal(pendingOrders[k])) =>
              UNCHANGED <<balance, holdings, transactions>>]_vars

\* C2 witness: a pass skipped a filled order although the price it was given
\* meets the order's trigger
FilledOrderSkippedAtTriggerPrice ==
    /\ ret.op = "checkAndExecuteOrders"
    /\ \E k \in 1..Len(pendingOrders) :
         /\ ret.outcomes[k] = "skipped"
         /\ pendingOrders[k].status = "filled"
         /\ ret.prices[pendingOrders[k].symbol] # 0
         /\ ShouldExecute(pendingOrders[k], R(ret.prices[pendingOrders[k].symbol]))

\* C3: a buy whose notional plus 0.1% fee exceeds the balance fails with
\* "Insufficient balance" and leaves balance, holdings, transactions and
\* orders as they were; any other buy succeeds, takes exactly notional plus
\* fee and leaves a balance that is not negative.
BuyNeverOverdraws ==
    [][\A b \in BuyInputs, r \in Draws :
         (ret'.op = "buy" /\ Buy(b[1], b[2], b[3], r)) =>
           LET cost == RMul(b[2], <<1001, 1000>>)
           IN  IF RGt(cost, balance)
               THEN /\ ~ret'.success
                    /\ ret'.error = "Insufficient balance"
                    /\ UNCHANGED <<balance, holdings, transactions, pendingOrders>>
               ELSE /\ ret'.success
                    /\ balance' = RSub(balance, cost)
                    /\ RGe(balance', Zero)]_vars

\* C3 witness: a buy was refused on the untouched balance of 500
BuyRefusedAtFullBalance ==
    /\ ret.op = "buy"
    /\ ~ret.success
    /\ ret.error = "Insufficient balance"
    /\ balance = R(INITIAL_BALANCE)

\* C4: the balance is never negative.
BalanceNeverNegative == RGe(balance, Zero)

Kind(op) ==
    CASE op = "deposit" -> "deposit"
      [] op = "buy" -> "buy"
      [] op = "sell" -> "sell"
      [] op = "claimDailyBonus" -> "bonus"

\* C5: a direct ledger call that succeeds changes balance or holdings and
\* puts exactly one transaction of its kind in front of the log, one that
\* fails changes none of balance, holdings and log; an order pass puts one
\* buy or sell transaction in front of the log per order it fills and changes
\* the ledger only if it fills one; the log is always one entry longer than
\* the number of successful actions since the last reset.
LedgerCallsAtomic ==
    [][/\ ret'.op \in {"deposit", "buy", "sell", "claimDailyBonus"} =>
            IF ret'.success
            THEN /\ Len(transactions') = Len(transactions) + 1
                 /\ Tail(transactions') = transactions
                 /\ Head(transactions').type = Kind(ret'.op)
                 /\ <<balance', holdings'>> # <<balance, holdings>>
            ELSE UNCHANGED <<balance, holdings, transactions>>
       /\ CheckStep =>
            LET n == Cardinality(FilledNow)
            IN  /\ Len(transactions') = Len(transactions) + n
                /\ SubSeq(transactions', n + 1, Len(transactions')) = transactions
                /\ \A i \in 1..n : transactions'[i].type \in {"buy", "sell"}
                /\ IF n = 0
                   THEN UNCHANGED <<balance, holdings>>
                   ELSE <<balance', holdings'>> # <<balance, holdings>>
       /\ Len(transactions) = 1 + okActions
       /\ Len(transactions') = 1 + okActions']_vars

\* C5 witness: after a direct call, a pass filled an order and logged its trade
PassLoggedTriggeredTrade ==
    /\ ret.op = "checkAndExecuteOrders"
    /\ \E k \in 1..Len(pendingOrders) : ret.outcomes[k] = "filled"
    /\ okActions >= 2
    /\ Len(transactions) = 1 + okActions

(***************************************************************************)
(* Buying and selling at one fixed price per symbol, slippage disabled     *)
(***************************************************************************)
FixedPrices == [s \in Symbols |-> IF s = "SOLUSDT" THEN 50 ELSE 50000]

\* <<symbol, amount (USD)>>
FixedBuyInputs == { <<"SOLUSDT", R(100)>>, <<"BTCUSDT", R(100)>>, <<"SOLUSDT", R(1000)>> }

\* <<symbol, amount (asset units)>>; the last leaves 1/10^8 of a 100 USD position
FixedSellInputs ==
    { <<"SOLUSDT", R(2)>>, <<"SOLUSDT", R(1)>>,
      <<"BTCUSDT", <<1, 500>>>>, <<"BTCUSDT", <<199999, 100000000>>>> }

BuyAtFixedPrice(symbol, amount) == Buy(symbol, amount, R(FixedPrices[symbol]), Zero)

SellAtFixedPrice(symbol, amount) == Sell(symbol, amount, R(FixedPrices[symbol]), Zero)

NextFixedPrice ==
    \/ \E b \in FixedBuyInputs : BuyAtFixedPrice(b[1], b[2])
    \/ \E b \in FixedSellInputs : SellAtFixedPrice(b[1], b[2])

SpecFixedPrice == Init /\ [][NextFixedPrice]_vars

RECURSIVE HoldingsValue(_, _)
HoldingsValue(held, prices) ==
    IF held = {} THEN Zero
    ELSE LET s == CHOOSE x \in held : TRUE
         IN  RAdd(RMul(holdings[s].amount, R(prices[s])),
                  HoldingsValue(held \ {s}, prices))

\* faulty variant: the cash alone
getPortfolioValueCashOnly(prices) == balance

\* a symbol without a price counts 0
getPortfolioValue(prices) == RAdd(balance, HoldingsValue(DOMAIN holdings, prices))

RECURSIVE TotalFees(_)
TotalFees(log) ==
    IF log = <<>> THEN Zero ELSE RAdd(Head(log).fee, TotalFees(Tail(log)))

RECURSIVE DustValue(_, _)
DustValue(syms, prices) ==
    IF syms = {} THEN Zero
    ELSE LET s == CHOOSE x \in syms : TRUE
         IN  RAdd(RMul(dust[s], R(prices[s])), DustValue(syms \ {s}, prices))

SellsOf(symbol) ==
    Cardinality({ i \in 1..Len(transactions) :
                    transactions[i].type = "sell" /\ transactions[i].symbol = symbol })

\* C6 as stated: balance plus holdings at the fixed prices is the starting
\* value less the fees of the executed trades.
ValueLessFeesConserved ==
    RAdd(getPortfolioValue(FixedPrices), TotalFees(transactions)) = R(INITIAL_BALANCE)

\* C6: balance plus holdings at the fixed prices is the starting value less the
\* fees of the executed trades and less the value of the remainders that sell
\* dropped with the holdings it deleted; per symbol these remainders are at
\* most 1/10^8 of a unit for each sale of the symbol.
ValueConservedUpToDust ==
    /\ RAdd(getPortfolioValue(FixedPrices),
            RAdd(TotalFees(transactions), DustValue(Symbols, FixedPrices)))
         = R(INITIAL_BALANCE)
    /\ \A s \in Symbols :
         /\ RGe(dust[s], Zero)
         /\ RLe(dust[s], <<SellsOf(s), EpsilonDen>>)

\* C6 witness: a sale deleted a holding that still had a remainder
SaleDroppedRemainder ==
    /\ ret.op = "sell"
    /\ ret.success
    /\ dust["BTCUSDT"] # Zero
    /\ "BTCUSDT" \notin DOMAIN holdings

(***************************************************************************)
(* Properties of the order pass                                            *)
(***************************************************************************)
\* C7: with slippage disabled, a pass that fills one stop-loss or take-profit
\* order of quantity q raises the balance by q x targetPrice x 0.999 and
\* lowers the holding by q, removing it when q was all of it.
StopOrderSellsItsQuantity ==
    [][(CheckStep /\ ~slippageEnabled) =>
         \A k \in FilledNow :
           LET order == pendingOrders[k]
               rest == RSub(holdings[order.symbol].amount, order.amount)
           IN  (order.type \in {"stop-loss", "take-profit"} /\ FilledNow = {k}) =>
                 /\ balance' = RAdd(balance,
                                    RMul(RMul(order.amount, order.targetPrice),
                                         <<999, 1000>>))
                 /\ IF rest = Zero
                    THEN order.symbol \notin DOMAIN holdings'
                    ELSE /\ order.symbol \in DOMAIN holdings'
                         /\ holdings'[order.symbol].amount = rest]_vars

\* the trigger conditions, for current price c
TriggerRule(order, c) ==
    \/ order.type = "limit" /\ order.side = "buy" /\ RLe(c, order.targetPrice)
    \/ order.type = "limit" /\ order.side = "sell" /\ RGe(c, order.targetPrice)
    \/ order.type = "stop-loss" /\ RLe(c, order.targetPrice)
    \/ order.type = "take-profit" /\ RGe(c, order.targetPrice)

\* the pass given price map prices has a trigger decision to take on the order
Live(order, prices) ==
    /\ order.status = "pending"
    /\ ~(order.expiresAt # NoExpiry /\ order.expiresAt < now)
    /\ prices[order.symbol] # 0

\* C8: in a pass, for a pending unexpired order with a current price, the
\* ledger is called exactly if the trigger condition holds; an order that does
\* not trigger is left as it is, and if none triggers the ledger is unchanged;
\* an order is filled by the pass exactly if its ledger call succeeded.
LedgerCalledIffTriggered ==
    [][CheckStep =>
         /\ \A k \in 1..Len(pendingOrders) :
              LET order == pendingOrders[k]
                  c == R(ret'.prices[order.symbol])
              IN  Live(order, ret'.prices) =>
                    /\ ret'.outcomes[k] \in {"filled", "ledger failed"}
                         <=> TriggerRule(order, c)
                    /\ ~TriggerRule(order, c) =>
                         /\ pendingOrders'[k] = order
                         /\ ret'.outcomes[k] = "not triggered"
                    /\ ret'.outcomes[k] = "filled"
                         <=> pendingOrders'[k].status = "filled"
         /\ (\A k \in 1..Len(pendingOrders) :
               Live(pendingOrders[k], ret'.prices) =>
                 ~TriggerRule(pendingOrders[k],
                              R(ret'.prices[pendingOrders[k].symbol]))) =>
              UNCHANGED <<balance, holdings, transactions>>]_vars

\* C8 witness: a pass filled a stop-loss at a price equal to its stop price
StopLossFilledAtStopPrice ==
    /\ ret.op = "checkAndExecuteOrders"
    /\ \E k \in 1..Len(pendingOrders) :
         /\ pendingOrders[k].type = "stop-loss"
         /\ ret.outcomes[k] = "filled"
         /\ pendingOrders[k].status = "filled"
         /\ R(ret.prices[pendingOrders[k].symbol]) = pendingOrders[k].targetPrice

\* C9: an order whose ledger call failed is left pending and unchanged, and a
\* pass in which no call succeeded leaves the ledger unchanged; a pending order
\* is never skipped by a pass; a pass never sets an order to cancelled.
FailedOrderStaysPending ==
    [][CheckStep =>
         /\ \A k \in 1..Len(pendingOrders) :
              /\ ret'.outcomes[k] = "ledger failed" =>
                   /\ pendingOrders'[k] = pendingOrders[k]
                   /\ pendingOrders'[k].status = "pending"
              /\ pendingOrders[k].status = "pending" => ret'.outcomes[k] # "skipped"
              /\ pendingOrders'[k].status = "cancelled" =>
                   pendingOrders[k].status = "cancelled"
         /\ FilledNow = {} => UNCHANGED <<balance, holdings, transactions>>]_vars

\* C9 witness: a pass in which the ledger call of a triggered order failed
LedgerCallFailedInPass ==
    /\ ret.op = "checkAndExecuteOrders"
    /\ \E k \in 1..Len(pendingOrders) :
         /\ ret.outcomes[k] = "ledger failed"
         /\ pendingOrders[k].status = "pending"

\* C10: with slippage disabled, every order a pass fills has a transaction of
\* the pass with its side, its symbol and its targetPrice as the price; a pass
\* that fills one limit buy of notional n takes n x 1.001 from the balance and
\* adds n / targetPrice units, whatever the current price was.
TriggeredTradeAtTargetPrice ==
    [][(CheckStep /\ ~slippageEnabled) =>
         \A k \in FilledNow :
           LET order == pendingOrders[k]
               held == IF order.symbol \in DOMAIN holdings
                       THEN holdings[order.symbol].amount ELSE Zero
           IN  /\ \E i \in 1..Cardinality(FilledNow) :
                    /\ transactions'[i].type = order.side
                    /\ transactions'[i].symbol = order.symbol
                    /\ transactions'[i].price = order.targetPrice
               /\ (order.type = "limit" /\ order.side = "buy" /\ FilledNow = {k}) =>
                    /\ balance' = RSub(balance, RMul(order.amount, <<1001, 1000>>))
                    /\ holdings'[order.symbol].amount =
                         RAdd(held, RDiv(order.amount, order.targetPrice))]_vars

\* C10 witness: a pass filled a limit buy at a current price below its target
LimitBuyFilledBelowTarget ==
    /\ ret.op = "checkAndExecuteOrders"
    /\ ~slippageEnabled
    /\ \E k \in 1..Len(pendingOrders) :
         /\ pendingOrders[k].type = "limit"
         /\ pendingOrders[k].side = "buy"
         /\ ret.outcomes[k] = "filled"
         /\ RLt(R(ret.prices[pendingOrders[k].symbol]), pendingOrders[k].targetPrice)

\* the order has an expiry time and the pass runs after it
PastExpiry(order) == order.expiresAt # NoExpiry /\ order.expiresAt < now

\* C11: a pass turns every pending order whose expiresAt is earlier than the
\* current time into an expired one, changing nothing else of it and calling
\* no ledger operation for it, whatever the price map says; an expired order
\* is skipped by every pass; a pass with only such orders leaves the ledger
\* unchanged.
ExpiryBeforeTrigger ==
    [][CheckStep =>
         /\ \A k \in 1..Len(pendingOrders) :
              LET order == pendingOrders[k]
              IN  /\ (order.status = "pending" /\ PastExpiry(order)) =>
                       /\ pendingOrders'[k] = [ order EXCEPT !.status = "expired" ]
                       /\ ret'.outcomes[k] = "expired"
                  /\ order.status = "expired" =>
                       /\ pendingOrders'[k] = order
                       /\ ret'.outcomes[k] = "skipped"
         /\ (\A k \in 1..Len(pendingOrders) :
               \/ pendingOrders[k].status = "expired"
               \/ pendingOrders[k].status = "pending" /\ PastExpiry(pendingOrders[k])) =>
              UNCHANGED <<balance, holdings, transactions>>]_vars

\* C11 witness: a pass expired an order at a price that meets its trigger
ExpiredAtTriggerPrice ==
    /\ ret.op = "checkAndExecuteOrders"
    /\ \E k \in 1..Len(pendingOrders) :
         /\ ret.outcomes[k] = "expired"
         /\ pendingOrders[k].status = "expired"
         /\ ret.prices[pendingOrders[k].symbol] # 0
         /\ TriggerRule(pendingOrders[k], R(ret.prices[pendingOrders[k].symbol]))

\* C12: a pass leaves every pending, unexpired order whose symbol has no
\* price in the map exactly as it is, and a pass in which no live order has a
\* price leaves the ledger unchanged.
MissingPriceSkips ==
    [][CheckStep =>
         /\ \A k \in 1..Len(pendingOrders) :
              LET order == pendingOrders[k]
              IN  (/\ order.status = "pending"
                   /\ ~PastExpiry(order)
                   /\ ret'.prices[order.symbol] = 0) =>
                    /\ pendingOrders'[k] = order
                    /\ ret'.outcomes[k] = "no price"
         /\ (\A k \in 1..Len(pendingOrders) : ~Live(pendingOrders[k], ret'.prices)) =>
              UNCHANGED <<balance, holdings, transactions>>]_vars

\* C12 witness: a pass without a price for the symbol of a pending limit buy
PendingOrderWithoutPrice ==
    /\ ret.op = "checkAndExecuteOrders"
    /\ \E k \in 1..Len(pendingOrders) :
         /\ ret.outcomes[k] = "no price"
         /\ pendingOrders[k].status = "pending"
         /\ pendingOrders[k].side = "buy"
         /\ ret.prices[pendingOrders[k].symbol] = 0

\* everything of the store but what the last call returned
Store ==
    <<balance, initialDeposit, holdings, transactions, pendingOrders, userTier,
      lastBonusClaim, slippageEnabled, slippagePercent, journalEntries>>

\* C13: cancelOrder(id) fails with "Order not found" when no order has the id
\* and with "Order cannot be cancelled" when the order is not pending, and then
\* changes nothing; otherwise it succeeds and changes that order's status to
\* cancelled and nothing else; it never changes balance, holdings, transactions.
CancelOnlyPending ==
    [][\A id \in 1..MaxEvents :
         (ret'.op = "cancelOrder" /\ CancelOrder(id)) =>
           LET found == { k \in 1..Len(pendingOrders) : pendingOrders[k].id = id }
           IN  /\ UNCHANGED <<balance, holdings, transactions>>
               /\ IF found = {}
                  THEN /\ ~ret'.success /\ ret'.error = "Order not found"
                       /\ UNCHANGED Store
                  ELSE IF \E k \in found : pendingOrders[k].status # "pending"
                  THEN /\ ~ret'.success /\ ret'.error = "Order cannot be cancelled"
                       /\ UNCHANGED Store
                  ELSE /\ ret'.success
                       /\ Len(pendingOrders') = Len(pendingOrders)
                       /\ \A k \in 1..Len(pendingOrders) :
                            pendingOrders'[k] =
                              IF k \in found
                              THEN [ pendingOrders[k] EXCEPT !.status = "cancelled" ]
                              ELSE pendingOrders[k]]_vars

\* C13 witness: one of two pending orders was cancelled
OneOfTwoCancelled ==
    /\ ret.op = "cancelOrder"
    /\ ret.success
    /\ \E j, k \in 1..Len(pendingOrders) :
         pendingOrders[j].status = "cancelled" /\ pendingOrders[k].status = "pending"

PlaceOps == {"placeLimitOrder", "placeStopLoss", "placeTakeProfit"}

\* the ledger would refuse the trade of the order in the current state
Unaffordable(order) ==
    IF order.side = "buy"
    THEN RGt(RMul(order.amount, <<1001, 1000>>), balance)
    ELSE \/ order.symbol \notin DOMAIN holdings
         \/ RLt(holdings[order.symbol].amount, RDiv(order.amount, order.targetPrice))

\* C14: a successful placement appends exactly one order, pending, with a new
\* id that the call returns, and leaves balance, holdings and transactions
\* unchanged; in a pass, the first order that triggers fails at the ledger
\* exactly if the wallet cannot afford it at that time.
PlacementReservesNothing ==
    [][/\ (ret'.op \in PlaceOps /\ ret'.success) =>
            /\ Len(pendingOrders') = Len(pendingOrders) + 1
            /\ SubSeq(pendingOrders', 1, Len(pendingOrders)) = pendingOrders
            /\ pendingOrders'[Len(pendingOrders')].status = "pending"
            /\ pendingOrders'[Len(pendingOrders')].id = ret'.orderId
            /\ \A k \in 1..Len(pendingOrders) : pendingOrders[k].id # ret'.orderId
            /\ UNCHANGED <<balance, holdings, transactions>>
       /\ CheckStep =>
            \A k \in 1..Len(pendingOrders) :
              LET order == pendingOrders[k]
              IN  (/\ Live(order, ret'.prices)
                   /\ TriggerRule(order, R(ret'.prices[order.symbol]))
                   /\ \A j \in 1..(k - 1) : ret'.outcomes[j] # "filled") =>
                    (ret'.outcomes[k] = "ledger failed" <=> Unaffordable(order))]_vars

\* C14 witness: a limit buy was placed next to another one, both pending, that
\* the balance cannot pay together
TwoBuysPlacedOnOneBalance ==
    /\ ret.op = "placeLimitOrder"
    /\ ret.success
    /\ \E j, k \in 1..Len(pendingOrders) :
         /\ j # k
         /\ pendingOrders[j].status = "pending" /\ pendingOrders[j].side = "buy"
         /\ pendingOrders[k].status = "pending" /\ pendingOrders[k].side = "buy"
         /\ RGt(RAdd(pendingOrders[j].amount, pendingOrders[k].amount), balance)

SellNeverOversells ==
    [][\A b \in SellInputs, r \in Draws :
         (ret'.op = "sell" /\ Sell(b[1], b[2], b[3], r)) =>
           IF b[1] \notin DOMAIN holdings \/ RLt(holdings[b[1]].amount, b[2])
           THEN /\ ~ret'.success
                /\ ret'.error = "Insufficient holdings"
                /\ UNCHANGED <<balance, holdings, transactions, pendingOrders>>
           ELSE /\ ret'.success
                /\ \A s \in DOMAIN holdings' : RGe(holdings'[s].amount, Zero)
                /\ b[1] \in DOMAIN holdings' =>
                     holdings'[b[1]].amount = RSub(holdings[b[1]].amount, b[2])]_vars

\* C16 witness: a sale of more than the holding has was refused
SaleAboveHoldingRefused ==
    /\ ret.op = "sell"
    /\ ~ret.success
    /\ ret.error = "Insufficient holdings"
    /\ "SOLUSDT" \in DOMAIN holdings

(***************************************************************************)
(* Buying one symbol at several prices, with and without slippage          *)
(***************************************************************************)
\* <<symbol, amount (USD), price>>
AverageBuyInputs ==
    { <<"BTCUSDT", R(100), R(50000)>>, <<"BTCUSDT", R(100), R(60000)>>,
      <<"BTCUSDT", R(200), R(60000)>> }

\* <<symbol, amount (asset units), price>>
AverageSellInputs == { <<"BTCUSDT", <<1, 1000>>, R(50000)>> }

NextAverage ==
    \/ \E b \in AverageBuyInputs, r \in Draws : Buy(b[1], b[2], b[3], r)
    \/ \E b \in AverageSellInputs, r \in Draws : Sell(b[1], b[2], b[3], r)
    \/ \E c \in SlippageInputs : SetSlippage(c[1], c[2])

SpecAverage == Init /\ [][NextAverage]_vars

\* price x (1 + random x percent / 100), the price a buy executes at
BuyExecutionPrice(price, random) ==
    IF slippageEnabled
    THEN RMul(price, RAdd(R(1), RDiv(RMul(random, slippagePercent), R(100))))
    ELSE price

Between(x, a, b) == (RLe(a, x) /\ RLe(x, b)) \/ (RLe(b, x) /\ RLe(x, a))

\* C17: a successful buy of notional n at execution price e (the price given
\* when slippage is disabled) on a holding of quantity q and average a leaves
\* quantity q + n/e and average (q x a + n) / (q + n/e), which lies between a
\* and e; a first buy leaves quantity n/e and average e.
AverageCostAccounting ==
    [][\A b \in AverageBuyInputs, r \in Draws :
         (ret'.op = "buy" /\ ret'.success /\ Buy(b[1], b[2], b[3], r)) =>
           LET e == BuyExecutionPrice(b[3], r)
               bought == RDiv(b[2], e)
               after == holdings'[b[1]]
           IN  IF b[1] \in DOMAIN holdings
               THEN LET q == holdings[b[1]].amount
                        a == holdings[b[1]].avgBuyPrice
                    IN  /\ after.amount = RAdd(q, bought)
                        /\ after.avgBuyPrice =
                             RDiv(RAdd(RMul(q, a), RMul(bought, e)), RAdd(q, bought))
                        /\ Between(after.avgBuyPrice, a, e)
               ELSE /\ after.amount = bought
                    /\ after.avgBuyPrice = e]_vars

\* C17 witness: 100 USD bought at 50000, then 100 USD at 60000, without
\* slippage: 11/3000 units at an average of 600000/11
AveragedOverTwoPrices ==
    /\ ret.op = "buy"
    /\ ret.success
    /\ ~slippageEnabled
    /\ "BTCUSDT" \in DOMAIN holdings
    /\ holdings["BTCUSDT"].amount = <<11, 3000>>
    /\ holdings["BTCUSDT"].avgBuyPrice = <<600000, 11>>

(***************************************************************************)
(* Holdings                                                                *)
(***************************************************************************)
\* holdings[symbol] as a sequence: of the holding, or empty for undefined
getHolding(symbol) == IF symbol \in DOMAIN holdings THEN << holdings[symbol] >> ELSE << >>

\* x <= 1/10^8 for a rational x
WithinEpsilon(x) == x[1] <= x[2] \div EpsilonDen

\* C18: after a successful sale that leaves at most 1/10^8 of a unit, all of
\* the holding included, getHolding(symbol) is undefined; after one that
\* leaves more, it is the holding with the remaining quantity.
SoldOutHoldingDeleted ==
    [][\A b \in FixedSellInputs :
         (ret'.op = "sell" /\ ret'.success /\ SellAtFixedPrice(b[1], b[2])) =>
           LET rest == RSub(holdings[b[1]].amount, b[2])
           IN  IF WithinEpsilon(rest)
               THEN getHolding(b[1])' = << >>
               ELSE /\ getHolding(b[1])' # << >>
                    /\ getHolding(b[1])'[1].amount = rest]_vars

\* C18 witness: a sale of exactly the whole holding, which is gone
WholeHoldingSold ==
    /\ ret.op = "sell"
    /\ ret.success
    /\ getHolding(Head(transactions).symbol) = << >>
    /\ dust[Head(transactions).symbol] = Zero

(***************************************************************************)
(* Buying and selling amounts down to 0                                    *)
(***************************************************************************)
\* <<symbol, amount (USD), price>>
AnyBuyInputs ==
    { <<"SOLUSDT", R(0), R(50)>>, <<"SOLUSDT", R(100), R(50)>>,
      <<"BTCUSDT", R(0), R(50000)>> }

\* <<symbol, amount (asset units), price>>
AnySellInputs == { <<"SOLUSDT", R(2), R(50)>>, <<"SOLUSDT", R(0), R(50)>> }

NextAnyAmount ==
    \/ \E b \in AnyBuyInputs : Buy(b[1], b[2], b[3], Zero)
    \/ \E b \in AnySellInputs : Sell(b[1], b[2], b[3], Zero)

SpecAnyAmount == Init /\ [][NextAnyAmount]_vars

\* C19: every holding in the map has a quantity above 1/10^8.
HoldingsAboveEpsilon ==
    \A s \in DOMAIN holdings : ~WithinEpsilon(holdings[s].amount)

(***************************************************************************)
(* Daily bonus                                                             *)
(***************************************************************************)
\* C20: claimDailyBonus succeeds only on a day on which it has not succeeded
\* before; on a day on which it has, it fails with "Already claimed today".
OneBonusPerDay ==
    [][ret'.op = "claimDailyBonus" =>
         IF Today \in bonusDays
         THEN ~ret'.success /\ ret'.error = "Already claimed today"
         ELSE ret'.success => bonusDays' = bonusDays \cup {Today}]_vars

\* A session restored from the persisted store: tier and last claim date are
\* what the previous session left; the clock starts on day 0.
InitRestored ==
    /\ balance = R(INITIAL_BALANCE)
    /\ initialDeposit = R(INITIAL_BALANCE)
    /\ holdings = NoHoldings
    /\ transactions = << SeedTransaction(1) >>
    /\ pendingOrders = <<>>
    /\ userTier \in Tiers
    /\ lastBonusClaim \in {NoClaim, 0}
    /\ slippageEnabled = FALSE
    /\ slippagePercent = DefaultSlippagePercent
    /\ now = 0
    /\ nextId = 2
    /\ ret = Ret("create", TRUE, Undefined)
    /\ okActions = 0
    /\ dust = [s \in Symbols |-> Zero]
    /\ switches = 0
    /\ bonusDays = IF lastBonusClaim = NoClaim THEN {} ELSE {lastBonusClaim}
    /\ journalEntries = <<>>
    /\ pass = NoPass
    /\ budget = MaxEvents

NextBonus ==
    \/ ClaimDailyBonus
    \/ AdvanceTime
    \/ ResetWallet
    \/ Deposit(R(100))

SpecBonus == InitRestored /\ [][NextBonus]_vars

\* the bonus of the paying tiers, in USD
PayingTiers == {"starter", "pro", "ultimate"}

TierBonus == [starter |-> R(50), pro |-> R(100), ultimate |-> R(2000)]

FreeTierAlwaysUpgrade ==
    [][(ret'.op = "claimDailyBonus" /\ userTier = "free") =>
         /\ ~ret'.success
         /\ ret'.error = "Upgrade to get daily bonus"
         /\ UNCHANGED Store]_vars

(***************************************************************************)
(* Amounts at the boundary                                                 *)
(***************************************************************************)
\* amounts (USD for deposit, buy and a limit buy; asset units otherwise)
NonPositiveAmounts == {R(-600), R(0)}

BoundaryAmounts == NonPositiveAmounts \cup {R(100)}

BoundaryUnits == NonPositiveAmounts \cup {R(2)}

NextBoundary ==
    \/ \E a \in BoundaryAmounts : Deposit(a)
    \/ \E a \in BoundaryAmounts : Buy("SOLUSDT", a, R(50), Zero)
    \/ \E a \in BoundaryUnits : Sell("SOLUSDT", a, R(50), Zero)
    \/ \E a \in BoundaryAmounts : PlaceLimitOrder("buy", "SOLUSDT", a, R(50))
    \/ \E a \in BoundaryUnits : PlaceStopLoss("SOLUSDT", a, R(50))
    \/ \E a \in BoundaryUnits : PlaceTakeProfit("SOLUSDT", a, R(50))

SpecBoundary == Init /\ [][NextBoundary]_vars

\* C23: a deposit, buy, sell, placeLimitOrder, placeStopLoss or
\* placeTakeProfit call with an amount that is not positive fails and leaves
\* balance, initialDeposit, holdings, transactions and pending orders unchanged.
NonPositiveAmountRejected ==
    [][\A a \in NonPositiveAmounts :
         ( \/ ret'.op = "deposit" /\ Deposit(a)
           \/ ret'.op = "buy" /\ Buy("SOLUSDT", a, R(50), Zero)
           \/ ret'.op = "sell" /\ Sell("SOLUSDT", a, R(50), Zero)
           \/ ret'.op = "placeLimitOrder" /\ PlaceLimitOrder("buy", "SOLUSDT", a, R(50))
           \/ ret'.op = "placeStopLoss" /\ PlaceStopLoss("SOLUSDT", a, R(50))
           \/ ret'.op = "placeTakeProfit" /\ PlaceTakeProfit("SOLUSDT", a, R(50)) )
         => /\ ~ret'.success
            /\ UNCHANGED <<balance, initialDeposit, holdings, transactions,
                           pendingOrders>>]_vars

(***************************************************************************)
(* The baseline                                                            *)
(***************************************************************************)
\* C24: initialDeposit changes only in deposit, which adds the deposited
\* amount, and in resetWallet, which sets it to 500; every other call leaves
\* it unchanged.
BaselineOnlyByDepositAndReset ==
    [][/\ \A a \in DepositAmounts :
            (ret'.op = "deposit" /\ Deposit(a)) => initialDeposit' = RAdd(initialDeposit, a)
       /\ ret'.op = "resetWallet" => initialDeposit' = R(500)
       /\ ret'.op \notin {"deposit", "resetWallet"} => initialDeposit' = initialDeposit]_vars

\* a trade made after a deposit of 100 has left the baseline at 600
BaselineKeptByTrade ==
    /\ ret.op = "buy"
    /\ ret.success
    /\ initialDeposit = R(600)
    /\ RLt(balance, R(600))

(***************************************************************************)
(* Portfolio queries                                                       *)
(***************************************************************************)
\* faulty variant: the percentage guarded against a baseline of 0 only
ProfitLossPercentUnguarded(profitLoss, baseline) ==
    IF baseline = Zero THEN Zero ELSE RMul(RDiv(profitLoss, baseline), R(100))

\* state.initialDeposit > 0 ? (profitLoss / state.initialDeposit) * 100 : 0
ProfitLossPercent(profitLoss, baseline) ==
    IF RGt(baseline, Zero) THEN RMul(RDiv(profitLoss, baseline), R(100)) ELSE Zero

\* the loop of getPortfolioMetrics over Object.values(state.holdings)
RECURSIVE MetricsSums(_, _)
MetricsSums(held, prices) ==
    IF held = {} THEN [ holdingsValue |-> Zero, totalCost |-> Zero ]
    ELSE LET s == CHOOSE x \in held : TRUE
             rest == MetricsSums(held \ {s}, prices)
         IN  [ holdingsValue |->
                   RAdd(rest.holdingsValue, RMul(holdings[s].amount, R(prices[s]))),
               totalCost |->
                   RAdd(rest.totalCost, RMul(holdings[s].amount, holdings[s].avgBuyPrice)) ]

getPortfolioMetrics(prices) ==
    LET sums == MetricsSums(DOMAIN holdings, prices)
        totalValue == RAdd(balance, sums.holdingsValue)
        profitLoss == RSub(totalValue, initialDeposit)
    IN  [ totalValue |-> totalValue, totalCost |-> sums.totalCost,
          profitLoss |-> profitLoss,
          profitLossPercent |-> ProfitLossPercent(profitLoss, initialDeposit),
          dayChange |-> Zero, dayChangePercent |-> Zero ]

\* what a query hands back
Answer(op, prices, value) == [ op |-> op, prices |-> prices, value |-> value ]

AllButRet ==
    <<balance, initialDeposit, holdings, transactions, pendingOrders, userTier,
      lastBonusClaim, slippageEnabled, slippagePercent, now, nextId, okActions,
      switches, bonusDays, dust, journalEntries, pass, budget>>

GetPortfolioValue(prices) ==
    /\ ret' = Answer("getPortfolioValue", prices, getPortfolioValue(prices))
    /\ UNCHANGED AllButRet

GetPortfolioMetrics(prices) ==
    /\ ret' = Answer("getPortfolioMetrics", prices, getPortfolioMetrics(prices))
    /\ UNCHANGED AllButRet

\* price maps of the valuation; 0 stands for a symbol without an entry
ValuationMaps ==
    { [s \in Symbols |-> IF s = "SOLUSDT" THEN p ELSE q] :
        p \in {0, 50}, q \in {0, 40000, 60000} }

ValuationBuyInputs == { <<"BTCUSDT", R(100), R(50000)>>, <<"SOLUSDT", R(100), R(50)>> }

NextValuation ==
    \/ \E b \in ValuationBuyInputs : Buy(b[1], b[2], b[3], Zero)
    \/ Sell("SOLUSDT", R(1), R(50), Zero)
    \/ Deposit(R(-500))
    \/ \E m \in ValuationMaps : GetPortfolioValue(m)
    \/ \E m \in ValuationMaps : GetPortfolioMetrics(m)

SpecValuation == Init /\ [][NextValuation]_vars

\* quantity x price of one symbol, 0 for a symbol that is not held
ValueOf(s, m) == IF s \in DOMAIN holdings THEN RMul(holdings[s].amount, R(m[s])) ELSE Zero

\* cash + sum over the holdings of quantity x price
CashPlusHoldings(m) == RAdd(balance, RAdd(ValueOf("SOLUSDT", m), ValueOf("BTCUSDT", m)))

\* C25: for every state and price map, getPortfolioValue and the totalValue
\* of getPortfolioMetrics are equal, and equal cash + sum of quantity x price
\* with a symbol without a price counting 0; the queries change no state.
PortfolioValueIsCashPlusHoldings ==
    [][\A m \in ValuationMaps :
         /\ (ret'.op = "getPortfolioValue" /\ GetPortfolioValue(m)) =>
                /\ ret'.value = CashPlusHoldings(m)
                /\ ret'.value = getPortfolioMetrics(m).totalValue
                /\ UNCHANGED AllButRet
         /\ (ret'.op = "getPortfolioMetrics" /\ GetPortfolioMetrics(m)) =>
                /\ ret'.value.totalValue = CashPlusHoldings(m)
                /\ ret'.value.totalValue = getPortfolioValue(m)
                /\ UNCHANGED AllButRet]_vars

\* two symbols held, one of them without a price: only the other one counts
ValuedWithMissingPrice ==
    /\ ret.op = "getPortfolioValue"
    /\ DOMAIN holdings = Symbols
    /\ ret.prices["SOLUSDT"] = 0
    /\ ret.prices["BTCUSDT"] = 60000
    /\ ret.value = RAdd(balance, R(120))

\* the wallet after one buy of notional n at price p on a fresh wallet
OneBuyOnFresh(n, p) ==
    /\ Len(transactions) = 2
    /\ Head(transactions).type = "buy"
    /\ Head(transactions).symbol = "BTCUSDT"
    /\ Head(transactions).total = n
    /\ Head(transactions).price = p
    /\ initialDeposit = R(INITIAL_BALANCE)

\* profitLoss as the claim derives it: n x v / p - n - fee
OneBuyProfitLoss(n, p, v) == RSub(RSub(RDiv(RMul(n, v), p), n), RMul(n, FeeRate))

\* what every getPortfolioMetrics answer satisfies besides the percentage
ProfitLossReported(m, answer) ==
    /\ answer.profitLoss = RSub(CashPlusHoldings(m), initialDeposit)
    /\ OneBuyOnFresh(R(100), R(50000)) =>
           /\ answer.profitLoss = OneBuyProfitLoss(R(100), R(50000), R(m["BTCUSDT"]))
           /\ m["BTCUSDT"] = 60000 => RGt(answer.profitLoss, Zero)
           /\ m["BTCUSDT"] = 40000 => RLt(answer.profitLoss, Zero)

SlippageDraws == {Zero, <<1, 2>>}

\* setSlippage(true, 0.5) and setSlippage(false) of the tests
SlippageSettings == { <<TRUE, <<1, 2>>>>, <<FALSE, NoPercent>> }

\* draws and percentages at which getExecutedPrice is evaluated on its own
FunctionDraws == SlippageDraws \cup {<<999, 1000>>}

FunctionPercents == {Zero, DefaultSlippagePercent, <<1, 2>>, R(50)}

SlippageQuote == R(50)

NextSlippage ==
    \/ \E c \in SlippageSettings : SetSlippage(c[1], c[2])
    \/ \E r \in SlippageDraws : Buy("SOLUSDT", R(100), SlippageQuote, r)
    \/ \E r \in SlippageDraws : Sell("SOLUSDT", R(1), SlippageQuote, r)

SpecSlippage == Init /\ [][NextSlippage]_vars

\* quote x (1 + sign x s / 100)
QuoteShifted(s, sign) == RMul(SlippageQuote, RAdd(R(1), RDiv(RMul(R(sign), s), R(100))))

\* C27: with slippage enabled at slippagePercent s the executed price of a buy
\* lies between the quote and quote x (1 + s/100), that of a sell between
\* quote x (1 - s/100) and the quote; with slippage disabled it is the quote.
\* The first conjunct states the bounds for getExecutedPrice itself, the
\* second for the prices the store records.
SlippageUnfavourableAndBounded ==
    [][/\ \A s \in FunctionPercents, r \in FunctionDraws :
            /\ RLe(SlippageQuote, getExecutedPrice(SlippageQuote, s, TRUE, r))
            /\ RLe(getExecutedPrice(SlippageQuote, s, TRUE, r), QuoteShifted(s, 1))
            /\ RLe(QuoteShifted(s, -1), getExecutedPrice(SlippageQuote, s, FALSE, r))
            /\ RLe(getExecutedPrice(SlippageQuote, s, FALSE, r), SlippageQuote)
       /\ \A r \in SlippageDraws :
         /\ ( /\ ret'.op = "buy"
              /\ ret'.success
              /\ Buy("SOLUSDT", R(100), SlippageQuote, r) ) =>
                LET executedPrice == Head(transactions').price
                IN  IF slippageEnabled
                    THEN /\ RLe(SlippageQuote, executedPrice)
                         /\ RLe(executedPrice, QuoteShifted(slippagePercent, 1))
                    ELSE executedPrice = SlippageQuote
         /\ ( /\ ret'.op = "sell"
              /\ ret'.success
              /\ Sell("SOLUSDT", R(1), SlippageQuote, r) ) =>
                LET executedPrice == Head(transactions').price
                IN  IF slippageEnabled
                    THEN /\ RLe(QuoteShifted(slippagePercent, -1), executedPrice)
                         /\ RLe(executedPrice, SlippageQuote)
                    ELSE executedPrice = SlippageQuote]_vars

\* a sale at 0.5% slippage executed strictly between 0.995 of the quote and
\* the quote
SoldInsideTheBand ==
    /\ ret.op = "sell"
    /\ ret.success
    /\ slippageEnabled
    /\ slippagePercent = <<1, 2>>
    /\ RLt(RMul(SlippageQuote, <<995, 1000>>), Head(transactions).price)
    /\ RLt(Head(transactions).price, SlippageQuote)

(***************************************************************************)
(* The transaction log                                                     *)
(***************************************************************************)
\* later is earlier with n transactions put in front, the most recent first
GrownInFront(earlier, later) ==
    LET n == Len(later) - Len(earlier)
    IN  /\ n >= 0
        /\ SubSeq(later, n + 1, Len(later)) = earlier
        /\ \A i \in 1..n : later[i].id >= nextId
        /\ \A i \in 1..(n - 1) : later[i].id > later[i + 1].id

\* C28 as stated: no operation updates or deletes a recorded transaction; the
\* log before a call is an unchanged suffix of the log after it and the new
\* transactions are in front.
LogAppendOnly ==
    [][GrownInFront(transactions, transactions')]_vars

\* C28, amended: the same for every operation but resetWallet, which replaces
\* the log by the seed deposit of the new wallet.
LogAppendOnlyUntilReset ==
    [][IF ret'.op = "resetWallet"
       THEN transactions' = << SeedTransaction(nextId) >>
       ELSE GrownInFront(transactions, transactions')]_vars

\* two calls have put their transactions in front of the seed deposit
LogGrownTwice ==
    /\ Len(transactions) = 3
    /\ transactions[3] = SeedTransaction(1)
    /\ transactions[1].id > transactions[2].id
    /\ transactions[2].id > 1
    /\ ret.op # "resetWallet"

(***************************************************************************)
(* Several orders triggering in one pass                                   *)
(***************************************************************************)
\* the order is a limit buy that the pass given price map prices triggers
TriggeredLimitBuy(order, prices) ==
    /\ order.type = "limit"
    /\ order.side = "buy"
    /\ Live(order, prices)
    /\ TriggerRule(order, R(prices[order.symbol]))

\* notional plus fee of a limit buy
BuyCost(order) == RMul(order.amount, <<1001, 1000>>)

\* C29: when two pending limit buys on one symbol, each affordable alone but
\* not together, trigger in the same pass and nothing else is filled before the
\* later one, the earlier one (in creation order) is filled, the later one
\* fails at the ledger and stays pending, and the balance does not go negative.
EarlierBuyWinsTheBalance ==
    [][CheckStep =>
         \A j, k \in 1..Len(pendingOrders) :
           ( /\ j < k
             /\ pendingOrders[j].symbol = pendingOrders[k].symbol
             /\ TriggeredLimitBuy(pendingOrders[j], ret'.prices)
             /\ TriggeredLimitBuy(pendingOrders[k], ret'.prices)
             /\ RLe(BuyCost(pendingOrders[j]), balance)
             /\ RLe(BuyCost(pendingOrders[k]), balance)
             /\ RGt(RAdd(BuyCost(pendingOrders[j]), BuyCost(pendingOrders[k])), balance)
             /\ \A i \in 1..(k - 1) : i # j => ret'.outcomes[i] # "filled" ) =>
               /\ pendingOrders[j].id < pendingOrders[k].id
               /\ ret'.outcomes[j] = "filled"
               /\ pendingOrders'[j].status = "filled"
               /\ ret'.outcomes[k] = "ledger failed"
               /\ pendingOrders'[k] = pendingOrders[k]
               /\ RGe(balance', Zero)
               /\ RLt(balance', BuyCost(pendingOrders[k]))]_vars

\* a pass has filled the first of two limit buys and left the second pending
\* for want of cash
SecondBuyLeftPending ==
    /\ ret.op = "checkAndExecuteOrders"
    /\ \E j, k \in 1..Len(pendingOrders) :
         /\ j < k
         /\ pendingOrders[j].type = "limit" /\ pendingOrders[j].side = "buy"
         /\ pendingOrders[k].type = "limit" /\ pendingOrders[k].side = "buy"
         /\ ret.outcomes[j] = "filled" /\ pendingOrders[j].status = "filled"
         /\ ret.outcomes[k] = "ledger failed" /\ pendingOrders[k].status = "pending"
         /\ RGe(balance, Zero)
         /\ RLt(balance, BuyCost(pendingOrders[k]))

(***************************************************************************)
(* One trade per order                                                     *)
(***************************************************************************)
\* the positions of the orders that a step turns from pending to filled
BecameFilled ==
    { k \in 1..Len(pendingOrders) :
        pendingOrders[k].status = "pending" /\ pendingOrders'[k].status = "filled" }

\* C30: an order causes at most one ledger trade: a pass records exactly one
\* buy/sell transaction, of the order's side and symbol, for each order it
\* turns to filled, and none besides; an order is turned to filled by no other
\* call and never placed as filled; a filled order is skipped by every later
\* pass.
OneTradePerOrder ==
    [][/\ CheckStep =>
            LET n == Len(transactions') - Len(transactions)
            IN  /\ n = Cardinality(BecameFilled)
                /\ BecameFilled = FilledNow
                /\ SubSeq(transactions', n + 1, Len(transactions')) = transactions
                /\ \A k \in BecameFilled :
                     LET rank == Cardinality({ i \in BecameFilled : i <= k })
                         tx == transactions'[n + 1 - rank]
                     IN  /\ tx.type = pendingOrders[k].side
                         /\ tx.symbol = pendingOrders[k].symbol
                /\ \A k \in 1..Len(pendingOrders) :
                     pendingOrders[k].status = "filled" =>
                       /\ ret'.outcomes[k] = "skipped"
                       /\ pendingOrders'[k] = pendingOrders[k]
       /\ (~CheckStep /\ ret'.op # "resetWallet") =>
            /\ BecameFilled = {}
            /\ \A k \in (Len(pendingOrders) + 1)..Len(pendingOrders') :
                 pendingOrders'[k].status # "filled"]_vars

\* a pass has filled a sell order and logged its sale
SellOrderFilledWithItsSale ==
    /\ ret.op = "checkAndExecuteOrders"
    /\ \E k \in 1..Len(pendingOrders) :
         /\ ret.outcomes[k] = "filled"
         /\ pendingOrders[k].status = "filled"
         /\ pendingOrders[k].side = "sell"
         /\ Head(transactions).type = "sell"
         /\ Head(transactions).symbol = pendingOrders[k].symbol

(***************************************************************************)
(* Orders with a target price below 1                                      *)
(***************************************************************************)
\* <<side, symbol, amount (USD), targetPrice>>
LowTargetLimitInputs ==
    { <<"buy", "SOLUSDT", R(100), R(55)>>, <<"sell", "SOLUSDT", R(1), <<1, 2>>>> }

\* <<symbol, amount (asset units), stopPrice / targetPrice>>
LowTargetStopInputs == { <<"SOLUSDT", R(2), R(55)>>, <<"SOLUSDT", R(2), <<1, 2>>>> }

NextLowTarget ==
    \/ Buy("SOLUSDT", R(100), R(50), Zero)
    \/ \E o \in LowTargetLimitInputs : PlaceLimitOrder(o[1], o[2], o[3], o[4])
    \/ \E o \in LowTargetStopInputs : PlaceStopLoss(o[1], o[2], o[3])
    \/ \E o \in LowTargetStopInputs : PlaceTakeProfit(o[1], o[2], o[3])
    \/ \E m \in PriceMaps : CheckAndExecuteOrders(m, [k \in 1..Len(pendingOrders) |-> Zero])

SpecLowTarget == Init /\ [][NextLowTarget]_vars

\* the order passes the validation of its place* action in the current state
PassesPlacement(order) ==
    IF order.type = "limit"
    THEN ~LimitRejected(order.side, order.symbol, order.amount, order.targetPrice)
    ELSE ~StopRejected(order.symbol, order.amount)

\* C31: an order that triggers in a pass before its expiry, on a balance and
\* holdings that pass its placement validation and that no earlier order of the
\* pass has changed, is executed by the ledger and becomes filled, whatever
\* its type and its target price.
ValidatedOrderFillsOnTrigger ==
    [][CheckStep =>
         \A k \in 1..Len(pendingOrders) :
           ( /\ Live(pendingOrders[k], ret'.prices)
             /\ TriggerRule(pendingOrders[k],
                            R(ret'.prices[pendingOrders[k].symbol]))
             /\ PassesPlacement(pendingOrders[k])
             /\ \A i \in 1..(k - 1) : ret'.outcomes[i] # "filled" ) =>
               /\ ret'.outcomes[k] = "filled"
               /\ pendingOrders'[k].status = "filled"]_vars

(***************************************************************************)
(* Two passes on one price map                                             *)
(***************************************************************************)
\* the fresh store of a run long enough for an order that fails in one pass
\* and is filled in the next
InitLongRun ==
    /\ balance = R(INITIAL_BALANCE)
    /\ initialDeposit = R(INITIAL_BALANCE)
    /\ holdings = NoHoldings
    /\ transactions = << SeedTransaction(1) >>
    /\ pendingOrders = <<>>
    /\ userTier = "free"
    /\ lastBonusClaim = NoClaim
    /\ slippageEnabled = FALSE
    /\ slippagePercent = DefaultSlippagePercent
    /\ now = 0
    /\ nextId = 2
    /\ ret = Ret("create", TRUE, Undefined)
    /\ okActions = 0
    /\ dust = [s \in Symbols |-> Zero]
    /\ switches = 0
    /\ bonusDays = {}
    /\ journalEntries = <<>>
    /\ pass = NoPass
    /\ budget = MaxEvents + 2

\* <<side, symbol, amount (USD), targetPrice>>
TwoPassLimitInputs ==
    { <<"buy", "SOLUSDT", R(200), R(55)>>, <<"sell", "SOLUSDT", R(55), R(55)>> }

NextTwoPasses ==
    \/ Buy("SOLUSDT", R(300), R(50), Zero)
    \/ \E o \in TwoPassLimitInputs : PlaceLimitOrder(o[1], o[2], o[3], o[4])
    \/ \E m \in PriceMaps : CheckAndExecuteOrders(m, [k \in 1..Len(pendingOrders) |-> Zero])

SpecTwoPasses == InitLongRun /\ [][NextTwoPasses]_vars

\* the step is a pass that follows a pass directly, on the same price map
SecondPass ==
    /\ ret.op = "checkAndExecuteOrders"
    /\ CheckStep
    /\ ret'.prices = ret.prices

\* C32 as stated: a second pass on the same price map, with no call and no
\* expiry in between, changes no order, balance, holding or transaction.
PassIsFixedPoint ==
    [][SecondPass => UNCHANGED <<balance, holdings, transactions, pendingOrders>>]_vars

\* C32, amended: the second pass leaves terminal orders alone, expires and
\* cancels nothing, and fills only orders whose ledger call failed in the
\* first pass; if no ledger call failed in the first pass it changes nothing.
SecondPassOnlyRetriesFailures ==
    [][SecondPass =>
         /\ \A k \in 1..Len(pendingOrders) :
              /\ Terminal(pendingOrders[k]) => pendingOrders'[k] = pendingOrders[k]
              /\ pendingOrders'[k] # pendingOrders[k] => k \in FilledNow
              /\ k \in FilledNow => ret.outcomes[k] = "ledger failed"
         /\ (\A k \in 1..Len(pendingOrders) : ret.outcomes[k] # "ledger failed") =>
              UNCHANGED <<balance, holdings, transactions, pendingOrders>>]_vars

\* a limit buy that the first pass could not pay for has been filled by the
\* second, from the proceeds of the sell order that the first pass filled
FilledOnSecondPass ==
    /\ ret.op = "checkAndExecuteOrders"
    /\ \E j, k \in 1..Len(pendingOrders) :
         /\ j < k
         /\ pendingOrders[j].side = "buy" /\ pendingOrders[j].status = "filled"
         /\ pendingOrders[k].side = "sell" /\ pendingOrders[k].status = "filled"
         /\ ret.outcomes[j] = "filled"
         /\ ret.outcomes[k] = "skipped"
         /\ transactions[1].type = "buy"
         /\ transactions[2].type = "sell"

(***************************************************************************)
(* The order pass taken one order at a time                                *)
(***************************************************************************)
\* faulty variant: a call may start while a pass is running
RunToCompletionNot == TRUE

\* checkAndExecuteOrders is a synchronous function: the forEach and the buy,
\* sell and set calls in it return before any other call of the store starts
RunToCompletion == pass = NoPass

AllButPass ==
    <<balance, initialDeposit, holdings, transactions, pendingOrders, userTier,
      lastBonusClaim, slippageEnabled, slippagePercent, now, nextId, ret, okActions,
      switches, bonusDays, dust, journalEntries, budget>>

\* const state = get(); state.pendingOrders.forEach(...): the pass starts on
\* the order list as it is now; start remembers the store for the comparison
\* with the pass taken as one step
BeginPass(currentPrices, randoms) ==
    /\ pass = NoPass
    /\ pass' = << [ snapshot |-> pendingOrders, i |-> 1, prices |-> currentPrices,
                    randoms |-> randoms, outcomes |-> <<>>, start |-> Wallet ] >>
    /\ UNCHANGED AllButPass

\* one iteration of the forEach
StepPass ==
    /\ pass # NoPass
    /\ pass[1].i <= Len(pass[1].snapshot)
    /\ LET p == pass[1]
           w == ProcessOrder(p.snapshot[p.i], Wallet, p.prices, now, p.randoms[p.i])
       IN  /\ (w.nextId - 1) + (now \div TimeStep) + switches <= budget
           /\ Commit(w)
           /\ pass' = << [ p EXCEPT !.i = p.i + 1,
                                    !.outcomes = Append(p.outcomes, w.outcomes[1]) ] >>
    /\ UNCHANGED <<initialDeposit, lastBonusClaim, ret, userTier, slippageEnabled,
                   slippagePercent, now, switches, bonusDays, journalEntries, budget>>

\* the forEach has reached the end of the list: the call returns
EndPass ==
    /\ pass # NoPass
    /\ pass[1].i > Len(pass[1].snapshot)
    /\ ret' = [ Ret("checkAndExecuteOrders", TRUE, Undefined) EXCEPT
                  !.outcomes = pass[1].outcomes, !.prices = pass[1].prices ]
    /\ pass' = NoPass
    /\ UNCHANGED <<balance, initialDeposit, holdings, transactions, pendingOrders,
                   userTier, lastBonusClaim, slippageEnabled, slippagePercent, now,
                   nextId, okActions, switches, bonusDays, dust, journalEntries, budget>>

StepwiseLimitInputs == { <<"buy", "SOLUSDT", R(300), R(55)>> }

NextStepwise ==
    \/ \E m \in PriceMaps : BeginPass(m, [k \in 1..Len(pendingOrders) |-> Zero])
    \/ StepPass
    \/ EndPass
    \/ RunToCompletion /\ \E o \in StepwiseLimitInputs :
                            PlaceLimitOrder(o[1], o[2], o[3], o[4])
    \/ RunToCompletion /\ \E id \in 1..MaxEvents : CancelOrder(id)
    \/ RunToCompletion /\ Buy("SOLUSDT", R(100), R(50), Zero)
    \/ RunToCompletion /\ Deposit(R(100))
    \/ RunToCompletion /\ ResetWallet

SpecStepwise == Init /\ [][NextStepwise]_vars

\* C33: while a pass is running every step is a step of that pass, on the
\* order list and the price map the pass started with, one order after the
\* other; when it returns it has evaluated every order of that list and the
\* store is what the pass taken as one step gives; an order that is cancelled
\* is never set to any other status.
PassIsAtomic ==
    [][/\ pass # NoPass =>
            /\ pass' # pass
            /\ pass' # NoPass =>
                 /\ pass'[1].snapshot = pass[1].snapshot
                 /\ pass'[1].prices = pass[1].prices
                 /\ pass'[1].i = pass[1].i + 1
            /\ pass' = NoPass =>
                 LET p == pass[1]
                     w == ProcessOrders(1, p.snapshot, p.start, p.prices, now, p.randoms)
                 IN  /\ Len(p.outcomes) = Len(p.snapshot)
                     /\ ret'.prices = p.prices
                     /\ ret'.outcomes = w.outcomes
                     /\ Wallet' = [ w EXCEPT !.outcomes = <<>> ]
       /\ \A k \in 1..Len(pendingOrders) :
            (pendingOrders[k].status = "cancelled" /\ k <= Len(pendingOrders')) =>
               pendingOrders'[k].status = "cancelled"]_vars

\* a pass over two orders has filled the first and has the second to evaluate
PassHalfWay ==
    /\ pass # NoPass
    /\ Len(pass[1].snapshot) = 2
    /\ pass[1].i = 2
    /\ pass[1].outcomes = << "filled" >>
    /\ pendingOrders[1].status = "filled"
    /\ pendingOrders[2].status = "pending"

(***************************************************************************)
(* Expiry                                                                  *)
(***************************************************************************)
StopTypes == {"stop-loss", "take-profit"}

\* C34: a stop-loss or take-profit order has no expiresAt and is never
\* expired: it leaves pending only by being filled in a pass or cancelled by
\* cancelOrder, and a pass in which it does not trigger, has no price or fails
\* at the ledger leaves it as it is.
StopOrdersNeverExpire ==
    [][\A k \in 1..Len(pendingOrders) :
         LET order == pendingOrders[k]
         IN  (order.type \in StopTypes /\ k <= Len(pendingOrders')) =>
               LET after == pendingOrders'[k]
               IN  /\ order.expiresAt = NoExpiry
                   /\ after.status # "expired"
                   /\ (order.status = "pending" /\ after.status # "pending") =>
                        \/ /\ after.status = "filled"
                           /\ CheckStep
                           /\ ret'.outcomes[k] = "filled"
                        \/ /\ after.status = "cancelled"
                           /\ ret'.op = "cancelOrder"
                   /\ ( /\ CheckStep
                        /\ order.status = "pending"
                        /\ ret'.outcomes[k] # "filled" ) =>
                          /\ after = order
                          /\ ret'.outcomes[k] \in
                               {"ledger failed", "not triggered", "no price"}]_vars

\* a stop-loss older than seven days that a pass has left pending
OldStopLossStillPending ==
    /\ ret.op = "checkAndExecuteOrders"
    /\ \E k \in 1..Len(pendingOrders) :
         /\ pendingOrders[k].type = "stop-loss"
         /\ pendingOrders[k].status = "pending"
         /\ pendingOrders[k].createdAt + LimitExpirySec < now
         /\ ret.outcomes[k] = "not triggered"

(***************************************************************************)
(* Limit orders under a clock that advances and passes that keep coming    *)
(***************************************************************************)
\* a run long enough for every placed order to be filled or to see its
\* deadline pass: ids of calls, one fill and one clock step per order
InitLive ==
    /\ balance = R(INITIAL_BALANCE)
    /\ initialDeposit = R(INITIAL_BALANCE)
    /\ holdings = NoHoldings
    /\ transactions = << SeedTransaction(1) >>
    /\ pendingOrders = <<>>
    /\ userTier = "free"
    /\ lastBonusClaim = NoClaim
    /\ slippageEnabled = FALSE
    /\ slippagePercent = DefaultSlippagePercent
    /\ now = 0
    /\ nextId = 2
    /\ ret = Ret("create", TRUE, Undefined)
    /\ okActions = 0
    /\ dust = [s \in Symbols |-> Zero]
    /\ switches = 0
    /\ bonusDays = {}
    /\ journalEntries = <<>>
    /\ pass = NoPass
    /\ budget = 3 * MaxEvents

\* a limit order that is pending and whose deadline has not passed
AwaitsDeadline(order) ==
    /\ order.type = "limit"
    /\ order.status = "pending"
    /\ order.expiresAt >= now

\* time passes while some limit order still waits for its deadline
ClockTick ==
    /\ \E k \in 1..Len(pendingOrders) : AwaitsDeadline(pendingOrders[k])
    /\ now' = now + TimeStep
    /\ ret' = Ret("advanceTime", TRUE, Undefined)
    /\ UNCHANGED <<balance, initialDeposit, holdings, transactions, pendingOrders,
                   userTier, lastBonusClaim, slippageEnabled, slippagePercent, nextId,
                   okActions, dust, switches, bonusDays, journalEntries, pass, budget>>

\* some call of checkAndExecuteOrders
SomePass ==
    \E m \in PriceMaps : CheckAndExecuteOrders(m, [k \in 1..Len(pendingOrders) |-> Zero])

\* the calls of the user stop after MaxEvents ids
UserCalls ==
    /\ nextId <= MaxEvents
    /\ \/ Buy("SOLUSDT", R(300), R(50), Zero)
       \/ \E o \in LimitInputs : PlaceLimitOrder(o[1], o[2], o[3], o[4])

NextLive ==
    \/ UserCalls
    \/ \E id \in 1..MaxEvents : CancelOrder(id)
    \/ SomePass
    \/ ClockTick

\* checkAndExecuteOrders keeps being called.  A call is possible in every
\* state of the run and one on another price map is no stuttering step, so
\* this is weak fairness of SomePass.
PassesKeepComing == []<><<ret'.op = "checkAndExecuteOrders">>_vars

\* time advances and checkAndExecuteOrders keeps being called
SpecLive ==
    InitLive /\ [][NextLive]_vars /\ WF_vars(ClockTick) /\ PassesKeepComing

SomeLimitPending ==
    \E k \in 1..Len(pendingOrders) :
       pendingOrders[k].type = "limit" /\ pendingOrders[k].status = "pending"

\* the event budget never refuses a pass of this run
PassNeverRefused ==
    (nextId - 1) + Len(pendingOrders) + (now \div TimeStep) + switches <= budget

\* C35: every limit order is created with expiresAt = creation time + 7 days
\* and is expired by the first pass strictly after that deadline unless it is
\* terminal already, so that, time advancing and passes being called, every
\* limit order is eventually filled, cancelled or expired.
\* The orders of a run stay in the list and a terminal order stays terminal,
\* so an order is eventually terminal when, whenever some limit order is
\* pending, a state follows in which none is.
LimitOrderEventuallyTerminal ==
    /\ SomeLimitPending ~> ~SomeLimitPending
    /\ [][\A k \in 1..Len(pendingOrders) :
            LET order == pendingOrders[k]
            IN  order.type = "limit" =>
                  /\ k <= Len(pendingOrders')
                  /\ Terminal(order) => pendingOrders'[k] = order
                  /\ order.expiresAt = order.createdAt + LimitExpirySec
                  /\ (CheckStep /\ order.status = "pending" /\ order.expiresAt < now) =>
                        pendingOrders'[k].status = "expired"
                  /\ (order.status = "pending" /\ pendingOrders'[k].status = "expired") =>
                        CheckStep /\ order.expiresAt < now]_vars

\* a limit order expired by a pass after its deadline
LimitOrderExpiredByPass ==
    /\ ret.op = "checkAndExecuteOrders"
    /\ \E k \in 1..Len(pendingOrders) :
         /\ pendingOrders[k].type = "limit"
         /\ pendingOrders[k].status = "expired"
         /\ pendingOrders[k].expiresAt < now
         /\ ret.outcomes[k] = "expired"

(***************************************************************************)
(* Sells and the holdings they leave                                       *)
(***************************************************************************)
\* <<side, symbol, amount (USD), targetPrice>>
SellSideLimitInputs == { <<"sell", "SOLUSDT", R(55), R(55)>> }

\* two holdings, direct sells of a part and of the whole, and sells by a stop
\* order and by a limit order
NextSells ==
    \/ \E s \in Symbols : Buy(s, R(100), R(50), Zero)
    \/ \E b \in SellInputs : Sell(b[1], b[2], b[3], Zero)
    \/ \E o \in SellSideLimitInputs : PlaceLimitOrder(o[1], o[2], o[3], o[4])
    \/ \E o \in StopInputs : PlaceStopLoss(o[1], o[2], o[3])
    \/ \E m \in PriceMaps : CheckAndExecuteOrders(m, [k \in 1..Len(pendingOrders) |-> Zero])

SpecSells == InitLongRun /\ [][NextSells]_vars

\* the step is a successful sell, direct or by orders of a pass
SellStep ==
    \/ ret'.op = "sell" /\ ret'.success
    \/ /\ CheckStep
       /\ FilledNow # {}
       /\ \A k \in FilledNow : pendingOrders[k].side = "sell"

\* the asset units of symbol s sold by the first n transactions of the log
RECURSIVE SoldUnits(_, _, _)
SoldUnits(log, n, s) ==
    IF n = 0 THEN Zero
    ELSE RAdd(IF log[n].type = "sell" /\ log[n].symbol = s THEN log[n].amount ELSE Zero,
              SoldUnits(log, n - 1, s))

\* C36: a successful sell, direct or triggered by an order, changes no
\* holding's avgBuyPrice and no holding of a symbol it did not sell; the
\* holding it sold from is deleted when 1e-8 or less remains and otherwise
\* has its amount reduced by the units sold and nothing else changed.
SellKeepsAverageCost ==
    [][SellStep =>
         LET n == Len(transactions') - Len(transactions)
         IN  \A s \in Symbols :
               LET sold == SoldUnits(transactions', n, s)
               IN  /\ s \in DOMAIN holdings' => s \in DOMAIN holdings
                   /\ sold = Zero =>
                        /\ s \in DOMAIN holdings => s \in DOMAIN holdings'
                        /\ s \in DOMAIN holdings' => holdings'[s] = holdings[s]
                   /\ sold # Zero =>
                        /\ s \in DOMAIN holdings
                        /\ LET left == RSub(holdings[s].amount, sold)
                           IN  IF ~IsDust(left)
                               THEN /\ s \in DOMAIN holdings'
                                    /\ holdings'[s].avgBuyPrice = holdings[s].avgBuyPrice
                                    /\ holdings'[s] = [ holdings[s] EXCEPT !.amount = left ]
                               ELSE s \notin DOMAIN holdings']_vars

\* an order has sold a part of one holding while another symbol is held
PartSoldByOrderBesideOtherHolding ==
    /\ ret.op = "checkAndExecuteOrders"
    /\ \E k \in 1..Len(pendingOrders) : ret.outcomes[k] = "filled"
    /\ DOMAIN holdings = Symbols
    /\ RLt(holdings["SOLUSDT"].amount, holdings["BTCUSDT"].amount)

(***************************************************************************)
(* The basic wallet store (stores/walletStore.ts) beside the extended one  *)
(***************************************************************************)
\* TRADING_FEE_PERCENT / 100 of the basic store
BasicFeeRate == <<1, 1000>>

BasicInitialBalance == 500

BasicDailyBonus(tier) ==
    CASE tier = "free" -> R(0)
      [] tier = "starter" -> R(50)
      [] tier = "pro" -> R(100)
      [] tier = "ultimate" -> R(2000)

\* the values of a transaction that both stores log
TxValues(tx) ==
    [ type |-> tx.type, symbol |-> tx.symbol, amount |-> tx.amount, price |-> tx.price,
      total |-> tx.total, fee |-> tx.fee ]

\* the state of the basic store that corresponds to the state of the extended one
Shared ==
    [ balance |-> balance, initialDeposit |-> initialDeposit, holdings |-> holdings,
      transactions |-> [ k \in 1..Len(transactions) |-> TxValues(transactions[k]) ],
      userTier |-> userTier, lastBonusClaim |-> lastBonusClaim ]

\* the basic store as constructed
BasicInitial ==
    [ balance |-> R(BasicInitialBalance), initialDeposit |-> R(BasicInitialBalance),
      holdings |-> NoHoldings,
      transactions |-> << [ type |-> "deposit", symbol |-> "USD",
                            amount |-> R(BasicInitialBalance), price |-> R(1),
                            total |-> R(BasicInitialBalance), fee |-> Zero ] >>,
      userTier |-> "free", lastBonusClaim |-> NoClaim ]

BasicResult(success, error, b) == [ success |-> success, error |-> error, b |-> b ]

BasicDeposit(b, amount) ==
    BasicResult(TRUE, Undefined,
        [ b EXCEPT
            !.balance = RAdd(b.balance, amount),
            !.initialDeposit = RAdd(b.initialDeposit, amount),
            !.transactions =
                << [ type |-> "deposit", symbol |-> "USD", amount |-> amount,
                     price |-> R(1), total |-> amount, fee |-> Zero ] >>
                \o b.transactions ])

BasicBuy(b, symbol, amount, price) ==
    LET fee == RMul(amount, BasicFeeRate)
        totalCost == RAdd(amount, fee)
        cryptoAmount == RDiv(amount, price)
        existing == symbol \in DOMAIN b.holdings
        newAmount ==
            IF existing THEN RAdd(b.holdings[symbol].amount, cryptoAmount)
            ELSE cryptoAmount
        newAvgPrice ==
            IF existing
            THEN RDiv(RAdd(RMul(b.holdings[symbol].amount,
                                b.holdings[symbol].avgBuyPrice), amount),
                      newAmount)
            ELSE price
    IN  IF RGt(totalCost, b.balance)
        THEN BasicResult(FALSE, "Insufficient balance", b)
        ELSE BasicResult(TRUE, Undefined,
               [ b EXCEPT
                   !.balance = RSub(b.balance, totalCost),
                   !.holdings =
                       [ s \in DOMAIN b.holdings \cup {symbol} |->
                           IF s = symbol
                           THEN [ symbol |-> symbol, amount |-> newAmount,
                                  avgBuyPrice |-> newAvgPrice ]
                           ELSE b.holdings[s] ],
                   !.transactions =
                       << [ type |-> "buy", symbol |-> symbol, amount |-> cryptoAmount,
                            price |-> price, total |-> amount, fee |-> fee ] >>
                       \o b.transactions ])

BasicSell(b, symbol, amount, price) ==
    IF symbol \notin DOMAIN b.holdings \/ RLt(b.holdings[symbol].amount, amount)
    THEN BasicResult(FALSE, "Insufficient holdings", b)
    ELSE
      LET holding == b.holdings[symbol]
          totalValue == RMul(amount, price)
          fee == RMul(totalValue, BasicFeeRate)
          netValue == RSub(totalValue, fee)
          newAmount == RSub(holding.amount, amount)
      IN  BasicResult(TRUE, Undefined,
            [ b EXCEPT
                !.balance = RAdd(b.balance, netValue),
                !.holdings =
                    IF newAmount[1] <= newAmount[2] \div (10 ^ 8)
                    THEN [ s \in DOMAIN b.holdings \ {symbol} |-> b.holdings[s] ]
                    ELSE [ b.holdings EXCEPT ![symbol] =
                             [ holding EXCEPT !.amount = newAmount ] ],
                !.transactions =
                    << [ type |-> "sell", symbol |-> symbol, amount |-> amount,
                         price |-> price, total |-> totalValue, fee |-> fee ] >>
                    \o b.transactions ])

BasicClaimDailyBonus(b, today) ==
    LET bonusAmount == BasicDailyBonus(b.userTier)
    IN  IF b.lastBonusClaim = today
        THEN BasicResult(FALSE, "Already claimed today", b)
        ELSE IF bonusAmount = Zero
        THEN BasicResult(FALSE, "Upgrade to get daily bonus", b)
        ELSE BasicResult(TRUE, Undefined,
               [ b EXCEPT
                   !.balance = RAdd(b.balance, bonusAmount),
                   !.lastBonusClaim = today,
                   !.transactions =
                       << [ type |-> "bonus", symbol |-> "USD", amount |-> bonusAmount,
                            price |-> R(1), total |-> bonusAmount, fee |-> Zero ] >>
                       \o b.transactions ])

BasicResetWallet(b) ==
    BasicResult(TRUE, Undefined,
        [ b EXCEPT
            !.balance = R(BasicInitialBalance),
            !.initialDeposit = R(BasicInitialBalance),
            !.holdings = NoHoldings,
            !.transactions =
                << [ type |-> "deposit", symbol |-> "USD",
                     amount |-> R(BasicInitialBalance), price |-> R(1),
                     total |-> R(BasicInitialBalance), fee |-> Zero ] >>,
            !.lastBonusClaim = NoClaim ])

\* <<symbol, amount (USD), price>>
SharedBuyInputs ==
    { <<s, a, R(50)>> : s \in Symbols, a \in {R(100), R(1000)} }

\* the operations both stores have, with slippage disabled
NextShared ==
    \/ \E a \in DepositAmounts : Deposit(a)
    \/ \E b \in SharedBuyInputs : Buy(b[1], b[2], b[3], Zero)
    \/ \E b \in SellInputs : Sell(b[1], b[2], b[3], Zero)
    \/ ClaimDailyBonus
    \/ ResetWallet
    \/ AdvanceTime

SpecShared == InitRestored /\ [][NextShared]_vars

\* the extended store has returned what the basic store returns and is in
\* the state the basic store is in
Agrees(r) ==
    /\ ret'.success = r.success
    /\ ret'.error = r.error
    /\ Shared' = r.b

\* C37: with slippage disabled every deposit, buy, sell, claimDailyBonus and
\* resetWallet of the extended store returns the result and leaves the
\* balance, initialDeposit, holdings, lastBonusClaim and transaction values
\* that the same call of the basic store returns and leaves from the
\* corresponding state; the two stores are constructed in corresponding
\* states, so they agree after every sequence of such calls.
ExtendedStoreMatchesBasic ==
    /\ (userTier = "free" /\ lastBonusClaim = NoClaim) => Shared = BasicInitial
    /\ [][/\ ~slippageEnabled
          /\ \A a \in DepositAmounts :
               (ret'.op = "deposit" /\ Deposit(a)) => Agrees(BasicDeposit(Shared, a))
          /\ \A b \in SharedBuyInputs :
               (ret'.op = "buy" /\ Buy(b[1], b[2], b[3], Zero)) =>
                  Agrees(BasicBuy(Shared, b[1], b[2], b[3]))
          /\ \A b \in SellInputs :
               (ret'.op = "sell" /\ Sell(b[1], b[2], b[3], Zero)) =>
                  Agrees(BasicSell(Shared, b[1], b[2], b[3]))
          /\ (ret'.op = "claimDailyBonus" /\ ClaimDailyBonus) =>
               Agrees(BasicClaimDailyBonus(Shared, Today))
          /\ (ret'.op = "resetWallet" /\ ResetWallet) =>
               Agrees(BasicResetWallet(Shared))
          /\ ret'.op = "advanceTime" => Shared' = Shared]_vars

\* both stores have bought, sold a part of the holding and paid a bonus
SharedHistory ==
    /\ Len(transactions) >= 3
    /\ \E i, j, k \in 1..Len(transactions) :
         /\ transactions[i].type = "sell"
         /\ transactions[j].type = "buy"
         /\ transactions[k].type = "bonus"
    /\ DOMAIN holdings # {}

(***************************************************************************)
(* Trading journal                                                         *)
(***************************************************************************)
\* transaction ids given to the journal: the seed transaction's and an id
\* that nothing has
JournalTargets == {1, 3 * MaxEvents}

\* the store of a run with room for a wallet filled before it is reset
InitJournal ==
    /\ balance = R(INITIAL_BALANCE)
    /\ initialDeposit = R(INITIAL_BALANCE)
    /\ holdings = NoHoldings
    /\ transactions = << SeedTransaction(1) >>
    /\ pendingOrders = <<>>
    /\ userTier \in {"free", "starter"}
    /\ lastBonusClaim = NoClaim
    /\ slippageEnabled = FALSE
    /\ slippagePercent = DefaultSlippagePercent
    /\ now = 0
    /\ nextId = 2
    /\ ret = Ret("create", TRUE, Undefined)
    /\ okActions = 0
    /\ dust = [s \in Symbols |-> Zero]
    /\ switches = 0
    /\ bonusDays = {}
    /\ journalEntries = <<>>
    /\ pass = NoPass
    /\ budget = MaxEvents + 1

AllButJournal ==
    <<balance, initialDeposit, holdings, transactions, pendingOrders, userTier,
      lastBonusClaim, slippageEnabled, slippagePercent, now, okActions, switches,
      bonusDays, dust, pass, budget>>

\* tags are left out: they are stored and returned with the note
AddJournalNote(transactionId, note) ==
    /\ Room
    /\ journalEntries' =
           Append(journalEntries,
                  [ id |-> nextId, transactionId |-> transactionId, note |-> note ])
    /\ nextId' = nextId + 1
    /\ ret' = Ret("addJournalNote", TRUE, Undefined)
    /\ UNCHANGED AllButJournal

UpdateJournalNote(entryId, note) ==
    /\ journalEntries' =
           [ k \in 1..Len(journalEntries) |->
               IF journalEntries[k].id = entryId
               THEN [ journalEntries[k] EXCEPT !.note = note ]
               ELSE journalEntries[k] ]
    /\ ret' = Ret("updateJournalNote", TRUE, Undefined)
    /\ UNCHANGED <<nextId, AllButJournal>>

\* the element Array.prototype.find returns among the positions ks
FirstMatch(ks) == CHOOSE k \in ks : \A j \in ks : k <= j

\* the entry found, as a sequence of length 1, or <<>> for undefined
getJournalForTransaction(transactionId) ==
    LET ks == { k \in 1..Len(journalEntries) :
                  journalEntries[k].transactionId = transactionId }
    IN  IF ks = {} THEN <<>> ELSE << journalEntries[FirstMatch(ks)] >>

GetJournalForTransaction(transactionId) ==
    /\ ret' = [ op |-> "getJournalForTransaction", transactionId |-> transactionId,
                value |-> getJournalForTransaction(transactionId) ]
    /\ UNCHANGED AllButRet

NextJournal ==
    \/ Buy("SOLUSDT", R(100), R(50), Zero)
    \/ \E o \in StopInputs : PlaceStopLoss(o[1], o[2], o[3])
    \/ \E t \in JournalTargets : AddJournalNote(t, "entry")
    \/ \E e \in 1..(MaxEvents + 1) : UpdateJournalNote(e, "exit")
    \/ \E t \in JournalTargets : GetJournalForTransaction(t)
    \/ ClaimDailyBonus
    \/ \E c \in SlippageInputs : SetSlippage(c[1], c[2])
    \/ ResetWallet

SpecJournal == InitJournal /\ [][NextJournal]_vars

\* C38: resetWallet leaves balance 500, initialDeposit 500, no holdings, no
\* orders, no journal entries, lastBonusClaim null and a log of exactly one
\* deposit transaction of 500, and leaves userTier and the slippage settings
\* as they were.
ResetWalletResult ==
    [][ret'.op = "resetWallet" =>
         /\ balance' = R(500)
         /\ initialDeposit' = R(500)
         /\ DOMAIN holdings' = {}
         /\ pendingOrders' = <<>>
         /\ journalEntries' = <<>>
         /\ lastBonusClaim' = NoClaim
         /\ Len(transactions') = 1
         /\ transactions'[1].type = "deposit"
         /\ transactions'[1].amount = R(500)
         /\ transactions'[1].total = R(500)
         /\ transactions'[1].fee = Zero
         /\ UNCHANGED <<userTier, slippageEnabled, slippagePercent>>]_vars

\* a wallet of the starter tier reset after slippage was set to 50 percent and
\* after a buy, an order or a journal note
ResetWithSettingsKept ==
    /\ ret.op = "resetWallet"
    /\ userTier = "starter"
    /\ slippageEnabled
    /\ slippagePercent = R(50)
    /\ nextId > 3

\* C40: addJournalNote appends one entry for the transactionId it is given,
\* whether or not a transaction has that id, and changes nothing else of the
\* store; getJournalForTransaction returns the earliest-added entry with that
\* transactionId, or undefined when there is none.
JournalAppendsAndFindsFirst ==
    [][/\ \A t \in JournalTargets :
            (ret'.op = "addJournalNote" /\ AddJournalNote(t, "entry")) =>
               /\ Len(journalEntries') = Len(journalEntries) + 1
               /\ SubSeq(journalEntries', 1, Len(journalEntries)) = journalEntries
               /\ journalEntries'[Len(journalEntries')].transactionId = t
               /\ UNCHANGED <<balance, initialDeposit, holdings, transactions,
                              pendingOrders, lastBonusClaim, userTier,
                              slippageEnabled, slippagePercent>>
       /\ ret'.op = "getJournalForTransaction" =>
            LET t == ret'.transactionId
                found == ret'.value
            IN  /\ UNCHANGED AllButRet
                /\ IF \A k \in 1..Len(journalEntries) : journalEntries[k].transactionId # t
                   THEN found = <<>>
                   ELSE /\ Len(found) = 1
                        /\ \E k \in 1..Len(journalEntries) :
                             /\ journalEntries[k] = found[1]
                             /\ found[1].transactionId = t
                             /\ \A j \in 1..(k - 1) : journalEntries[j].transactionId # t]_vars

\* the journal holds two notes for a transaction id that no transaction has,
\* and the first of them has been returned
FirstOfTwoNotesFound ==
    /\ ret.op = "getJournalForTransaction"
    /\ \A k \in 1..Len(transactions) : transactions[k].id # ret.transactionId
    /\ Len(ret.value) = 1
    /\ \E j, k \in 1..Len(journalEntries) :
         /\ j < k
         /\ journalEntries[j].transactionId = ret.transactionId
         /\ journalEntries[k].transactionId = ret.transactionId
         /\ ret.value[1] = journalEntries[j]

(***************************************************************************)
(* Persistence: the snapshot written by persist and the store restored     *)
(* from it                                                                 *)
(***************************************************************************)
\* transactions.slice(0, 100)
TransactionsKept == 100

\* journalEntries.slice(0, 200)
JournalKept == 200

\* Array.prototype.slice(0, n)
slice(seq, n) == SubSeq(seq, 1, IF Len(seq) < n THEN Len(seq) ELSE n)

\* o => o.status === 'pending'
PersistedOrder(order) == order.status = "pending"

partialize ==
    [ balance |-> balance, initialDeposit |-> initialDeposit, holdings |-> holdings,
      transactions |-> slice(transactions, TransactionsKept),
      pendingOrders |-> SelectSeq(pendingOrders, PersistedOrder),
      journalEntries |-> slice(journalEntries, JournalKept),
      userTier |-> userTier, lastBonusClaim |-> lastBonusClaim,
      slippageEnabled |-> slippageEnabled, slippagePercent |-> slippagePercent ]

\* the page is loaded again: the store is restored from the snapshot
Rehydrate ==
    /\ LET p == partialize
       IN  /\ balance' = p.balance
           /\ initialDeposit' = p.initialDeposit
           /\ holdings' = p.holdings
           /\ transactions' = p.transactions
           /\ pendingOrders' = p.pendingOrders
           /\ journalEntries' = p.journalEntries
           /\ userTier' = p.userTier
           /\ lastBonusClaim' = p.lastBonusClaim
           /\ slippageEnabled' = p.slippageEnabled
           /\ slippagePercent' = p.slippagePercent
    /\ ret' = Ret("rehydrate", TRUE, Undefined)
    /\ UNCHANGED <<now, nextId, okActions, dust, switches, bonusDays, pass, budget>>

\* the log after n deposits of 1, most recent first
PastDeposits(n) ==
    [ k \in 1..n |->
        [ id |-> n + 2 - k, type |-> "deposit", orderType |-> Undefined, symbol |-> "USD",
          amount |-> R(1), price |-> R(1), total |-> R(1), fee |-> Zero,
          slippage |-> Undefined ] ]
    \o << SeedTransaction(1) >>

\* the journal after n notes on the seed transaction, written after d deposits
PastNotes(n, d) ==
    [ k \in 1..n |-> [ id |-> d + 1 + k, transactionId |-> 1, note |-> "entry" ] ]

\* a wallet that is new, or has made 99 deposits of 1 and written 200 notes
InitLongHistory ==
    \E d \in {0, TransactionsKept - 1} : \E n \in {IF d = 0 THEN 0 ELSE JournalKept} :
       /\ balance = R(INITIAL_BALANCE + d)
       /\ initialDeposit = R(INITIAL_BALANCE + d)
       /\ holdings = NoHoldings
       /\ transactions = PastDeposits(d)
       /\ pendingOrders = <<>>
       /\ userTier = "free"
       /\ lastBonusClaim = NoClaim
       /\ slippageEnabled = FALSE
       /\ slippagePercent = DefaultSlippagePercent
       /\ now = 0
       /\ nextId = d + n + 2
       /\ ret = Ret("create", TRUE, Undefined)
       /\ okActions = d
       /\ dust = [s \in Symbols |-> Zero]
       /\ switches = 0
       /\ bonusDays = {}
       /\ journalEntries = PastNotes(n, d)
       /\ pass = NoPass
       /\ budget = d + n + MaxEvents

\* cancelOrder with the id of an order of the list
CancelListedOrder == \E k \in 1..Len(pendingOrders) : CancelOrder(pendingOrders[k].id)

NextPersist ==
    \/ Deposit(R(1))
    \/ \E o \in LimitInputs : PlaceLimitOrder(o[1], o[2], o[3], o[4])
    \/ CancelListedOrder
    \/ \E m \in PriceMaps : CheckAndExecuteOrders(m, [k \in 1..Len(pendingOrders) |-> Zero])
    \/ AdvanceTime
    \/ AddJournalNote(1, "entry")
    \/ Rehydrate

SpecPersist == InitLongHistory /\ [][NextPersist]_vars

\* C39: the store restored from the persisted snapshot holds exactly the
\* orders that were pending, in their order (filled, cancelled and expired
\* ones are dropped), the 100 most recent transactions at most, 200 journal
\* entries at most, and the balance, initialDeposit, holdings, userTier,
\* lastBonusClaim and slippage settings it had.
SnapshotKeepsPendingAndBalances ==
    [][ret'.op = "rehydrate" =>
         /\ \A k \in 1..Len(pendingOrders') : pendingOrders'[k].status = "pending"
         /\ \A k \in 1..Len(pendingOrders) :
              pendingOrders[k].status = "pending" =>
                 \E j \in 1..Len(pendingOrders') : pendingOrders'[j] = pendingOrders[k]
         /\ Len(pendingOrders') =
              Cardinality({ k \in 1..Len(pendingOrders) : pendingOrders[k].status = "pending" })
         /\ Len(transactions') <= 100
         /\ Len(transactions') = Len(transactions) \/ Len(transactions') = 100
         /\ \A k \in 1..Len(transactions') : transactions'[k] = transactions[k]
         /\ Len(journalEntries') <= 200
         /\ Len(journalEntries') = Len(journalEntries) \/ Len(journalEntries') = 200
         /\ \A k \in 1..Len(journalEntries') : journalEntries'[k] = journalEntries[k]
         /\ UNCHANGED <<balance, initialDeposit, holdings, userTier, lastBonusClaim,
                        slippageEnabled, slippagePercent>>]_vars

\* a store restored without its oldest transaction and with an order that is
\* still pending
RestoredFromFullLog ==
    /\ ret.op = "rehydrate"
    /\ Len(transactions) = 100
    /\ \A k \in 1..Len(transactions) : transactions[k].id # 1
    /\ Len(pendingOrders) = 1
    /\ pendingOrders[1].id < nextId - 1

====
